---------------------------- MODULE Spec2Model ----------------------------
(***************************************************************************)
(* A model of pyaward: the multi-strategy Wikipedia awards scraper          *)
(* (data_ingestion/scrapers/wikipedia_scraper.py) and the title matcher     *)
(* and enrichment engine (data_ingestion/utils/storage.py).                 *)
(*                                                                          *)
(* Python strings are TLA+ strings; characters are strings of length one.   *)
(* Python's None is the value None below.  Python dicts are functions       *)
(* whose DOMAIN is the dict's key set.                                      *)
(***************************************************************************)
EXTENDS Integers, Sequences, FiniteSets, TLC

VARIABLES
    \* ---- _normalize_title applied once and twice (SpecNormalize)
    title,          \* the input string
    normalized,     \* _normalize_title(title)
    renormalized,   \* _normalize_title(normalized)
    npc,            \* "input" -> "once" -> "twice"
    \* ---- match_movie_to_award (SpecMatch)
    movie_title,        \* first argument
    award_movie_title,  \* second argument
    threshold,          \* third argument, in tenths (8 is 0.8)
    matched,            \* the returned bool
    tier,               \* the return statement that produced it
    mpc,                \* "input" -> "done"
    \* ---- scrape_year (Spec)
    year,       \* the argument of scrape_year
    attempt,    \* _fetch_page's loop variable
    soup,       \* the document tree, None before the fetch returns
    awards,     \* scrape_year's local list
    result,     \* what scrape_year returned, None before it returns
    pc,         \* scrape_year's position
    fetched,    \* history: the tree as _fetch_page returned it
    calls,      \* history: the strategies called, each with what it returned
    \* ---- one table row, and the same entry as a list item (SpecEntry)
    row,            \* the <tr> element
    category,       \* the category it is parsed under
    rowWon,         \* _is_winner_row(row)
    rowAwards,      \* _parse_nominees_table on a table holding a header and row
    itemAwards,     \* _parse_list_items on a list holding the first cell as <li>
    epc,            \* "input" -> "row" -> "item"
    \* ---- enrich_awards_with_movie_data (SpecEnrich)
    awards_in,          \* the argument awards: the award dicts as they are now
    movies,             \* the argument movies: the movie dicts as they are now
    movie_lookup,       \* the dict from normalized title to movie, in key order
    enriched_awards,    \* the list being returned
    xi,                 \* the position of the for loop in awards
    xpc,                \* "lookup" -> "loop" -> "done"
    awards0,            \* history: awards as passed in
    movies0,            \* history: movies as passed in
    \* ---- scrape_multiple_years (SpecYears)
    start_year,     \* the argument start_year
    end_year,       \* the argument end_year
    cur_year,       \* the loop variable year
    all_awards,     \* the list being returned
    seen,           \* history: each year's fetch and what scrape_year returned
    ypc,            \* "loop" -> "done"
    \* ---- scrape_movies and scrape_category (SpecScan)
    scraper,        \* "movies" or "category": the function running
    category_name,  \* scrape_category's argument
    skip_tables,    \* the table indexes skipped
    table_index,    \* the index of the table being, or next to be, scanned
    row_index,      \* the index of the next row in its table
    current_year,   \* the carried year
    data,           \* the list being returned
    scanned,        \* history: the rows scanned, each with what it came to
    kpc,            \* "tables" <-> "rows", "tables" -> "done"
    \* ---- _get_person_role (SpecRole)
    role_category,  \* the argument category
    person_role,    \* the returned role
    rpc             \* "input" -> "done"

normVars == <<title, normalized, renormalized, npc>>
matchVars == <<movie_title, award_movie_title, threshold, matched, tier, mpc>>
scrapeVars == <<year, attempt, soup, awards, result, pc, fetched, calls>>
entryVars == <<row, category, rowWon, rowAwards, itemAwards, epc>>
enrichVars == <<awards_in, movies, movie_lookup, enriched_awards, xi, xpc,
                awards0, movies0>>
yearsVars == <<start_year, end_year, cur_year, all_awards, seen, ypc>>
scanVars == <<scraper, category_name, skip_tables, table_index, row_index,
              current_year, data, scanned, kpc>>
roleVars == <<role_category, person_role, rpc>>
vars == <<normVars, matchVars, scrapeVars, entryVars,
         enrichVars, yearsVars, scanVars, roleVars>>

None == "<None>"

----------------------------------------------------------------------------
(* Characters and strings *)

UPPER == "ABCDEFGHIJKLMNOPQRSTUVWXYZ"
LOWER == "abcdefghijklmnopqrstuvwxyz"
DIGITS == "0123456789"

Ch(s, i) == SubSeq(s, i, i)

Chars(s) == {Ch(s, i) : i \in 1..Len(s)}

\* regex \w on str patterns: letters, digits and the underscore
UpperChars == Chars(UPPER)
DigitChars == Chars(DIGITS)
WordChars == UpperChars \cup Chars(LOWER) \cup DigitChars \cup {"_"}

\* regex \s and str.split(): whitespace
SpaceChars == {" ", "\t", "\n"}

IsWordChar(c) == c \in WordChars

IsSpace(c) == c \in SpaceChars

LowerChar(c) ==
    IF c \in UpperChars
    THEN Ch(LOWER, CHOOSE i \in 1..Len(UPPER) : Ch(UPPER, i) = c)
    ELSE c

\* str.lower()
RECURSIVE Lower(_)
Lower(s) ==
    IF s = "" THEN "" ELSE LowerChar(Ch(s, 1)) \o Lower(SubSeq(s, 2, Len(s)))

\* Python's `a in b` on strings
IsSubstring(a, b) ==
    \E i \in 0..(Len(b) - Len(a)) : SubSeq(b, i + 1, i + Len(a)) = a

\* str.startswith
StartsWith(s, p) == Len(p) <= Len(s) /\ SubSeq(s, 1, Len(p)) = p

\* str.split(): the maximal runs of non-whitespace characters, in order
RECURSIVE SplitFrom(_, _, _)
SplitFrom(s, i, cur) ==
    IF i > Len(s)
    THEN IF cur = "" THEN <<>> ELSE <<cur>>
    ELSE IF IsSpace(Ch(s, i))
         THEN (IF cur = "" THEN <<>> ELSE <<cur>>) \o SplitFrom(s, i + 1, "")
         ELSE SplitFrom(s, i + 1, cur \o Ch(s, i))

Split(s) == SplitFrom(s, 1, "")

\* ' '.join(words)
RECURSIVE JoinSpace(_)
JoinSpace(words) ==
    IF words = <<>> THEN ""
    ELSE IF Len(words) = 1 THEN words[1]
    ELSE words[1] \o " " \o JoinSpace(Tail(words))

\* ' '.join(text.split()), and the .strip() that follows it
CollapseWhitespace(s) == JoinSpace(Split(s))

\* All strings over an alphabet, up to a length
RECURSIVE StringsUpTo(_, _)
StringsUpTo(alphabet, n) ==
    IF n = 0 THEN {""}
    ELSE LET shorter == StringsUpTo(alphabet, n - 1)
         IN  shorter \cup {s \o c : s \in shorter, c \in alphabet}

----------------------------------------------------------------------------
(* DataMatcher._normalize_title *)

\* regex \b at position p of s (between characters p-1 and p)
WordBoundary(s, p) ==
    LET before == p > 1 /\ IsWordChar(Ch(s, p - 1))
        after == p <= Len(s) /\ IsWordChar(Ch(s, p))
    IN  before # after

\* the alternatives of (the|a|an), in the order the regex tries them
ARTICLES == <<"the", "a", "an">>

ArticleAt(s, i, w) ==
    /\ WordBoundary(s, i)
    /\ i + Len(w) - 1 <= Len(s)
    /\ SubSeq(s, i, i + Len(w) - 1) = w
    /\ WordBoundary(s, i + Len(w))

\* length of the match of \b(the|a|an)\b at position i, 0 when there is none
ArticleMatchLen(s, i) ==
    IF \E k \in 1..Len(ARTICLES) : ArticleAt(s, i, ARTICLES[k])
    THEN Len(ARTICLES[CHOOSE k \in 1..Len(ARTICLES) :
                 /\ ArticleAt(s, i, ARTICLES[k])
                 /\ \A j \in 1..(k - 1) : ~ArticleAt(s, i, ARTICLES[j])])
    ELSE 0

\* re.sub(r'\b(the|a|an)\b', '', s): leftmost matches, left to right
RECURSIVE RemoveArticlesFrom(_, _)
RemoveArticlesFrom(s, i) ==
    IF i > Len(s) THEN ""
    ELSE LET m == ArticleMatchLen(s, i)
         IN  IF m > 0 THEN RemoveArticlesFrom(s, i + m)
             ELSE Ch(s, i) \o RemoveArticlesFrom(s, i + 1)

RemoveArticles(s) == RemoveArticlesFrom(s, 1)

\* re.sub(r'[^\w\s]', '', s)
RECURSIVE RemovePunctuation(_)
RemovePunctuation(s) ==
    IF s = "" THEN ""
    ELSE (IF IsWordChar(Ch(s, 1)) \/ IsSpace(Ch(s, 1)) THEN Ch(s, 1) ELSE "")
         \o RemovePunctuation(SubSeq(s, 2, Len(s)))

NormalizeTitle(t) ==
    CollapseWhitespace(RemovePunctuation(RemoveArticles(Lower(t))))

----------------------------------------------------------------------------
(* DataMatcher.match_movie_to_award *)

\* set(title.split())
WordSet(s) == {Split(s)[i] : i \in 1..Len(Split(s))}

\* the similarity compared with > in place of >=
JaccardAtLeast_Strict(words1, words2, tenths) ==
    10 * Cardinality(words1 \cap words2) > tenths * Cardinality(words1 \cup words2)

\* len(intersection) / len(union) >= threshold, the threshold in tenths
JaccardAtLeast(words1, words2, tenths) ==
    10 * Cardinality(words1 \cap words2) >= tenths * Cardinality(words1 \cup words2)

\* match_movie_to_award without its substring check
MatchDecision_NoSubstring(t1, t2, tenths) ==
    LET title1 == NormalizeTitle(t1)
        title2 == NormalizeTitle(t2)
        words1 == WordSet(title1)
        words2 == WordSet(title2)
    IN  IF title1 = title2 THEN [tier |-> "exact", result |-> TRUE]
        ELSE IF words1 \cup words2 = {}
        THEN [tier |-> "empty", result |-> FALSE]
        ELSE [tier |-> "jaccard",
              result |-> JaccardAtLeast(words1, words2, tenths)]

\* match_movie_to_award testing only whether the first title is in the second
MatchDecision_OneWaySubstring(t1, t2, tenths) ==
    LET title1 == NormalizeTitle(t1)
        title2 == NormalizeTitle(t2)
        words1 == WordSet(title1)
        words2 == WordSet(title2)
    IN  IF title1 = title2 THEN [tier |-> "exact", result |-> TRUE]
        ELSE IF IsSubstring(title1, title2)
        THEN [tier |-> "substring", result |-> TRUE]
        ELSE IF words1 \cup words2 = {}
        THEN [tier |-> "empty", result |-> FALSE]
        ELSE [tier |-> "jaccard",
              result |-> JaccardAtLeast(words1, words2, tenths)]

\* match_movie_to_award with a substring check that wants both titles
\* non-empty
MatchDecision_NonEmptySubstring(t1, t2, tenths) ==
    LET title1 == NormalizeTitle(t1)
        title2 == NormalizeTitle(t2)
        words1 == WordSet(title1)
        words2 == WordSet(title2)
    IN  IF title1 = title2 THEN [tier |-> "exact", result |-> TRUE]
        ELSE IF /\ title1 # "" /\ title2 # ""
                /\ (IsSubstring(title1, title2) \/ IsSubstring(title2, title1))
        THEN [tier |-> "substring", result |-> TRUE]
        ELSE IF words1 \cup words2 = {}
        THEN [tier |-> "empty", result |-> FALSE]
        ELSE [tier |-> "jaccard",
              result |-> JaccardAtLeast(words1, words2, tenths)]

\* which return statement decides, and what it returns
MatchDecision(t1, t2, tenths) ==
    LET title1 == NormalizeTitle(t1)
        title2 == NormalizeTitle(t2)
        words1 == WordSet(title1)
        words2 == WordSet(title2)
    IN  IF title1 = title2 THEN [tier |-> "exact", result |-> TRUE]
        ELSE IF IsSubstring(title1, title2) \/ IsSubstring(title2, title1)
        THEN [tier |-> "substring", result |-> TRUE]
        ELSE IF words1 \cup words2 = {}
        THEN [tier |-> "empty", result |-> FALSE]
        ELSE [tier |-> "jaccard",
              result |-> JaccardAtLeast(words1, words2, tenths)]

MatchMovieToAward(t1, t2, tenths) == MatchDecision(t1, t2, tenths).result

\* the default of the threshold parameter, 0.8
DefaultThreshold == 8

----------------------------------------------------------------------------
(* The document tree.  A page is the sequence of its block elements, all    *)
(* siblings: headings, tables, lists and other blocks.  Every block has the *)
(* same fields; those that do not apply to its kind hold a default.         *)

\* <a>: href is None when the element has no href attribute
Link(text, href) == [text |-> text, href |-> href]

\* <td>/<th> or <li>/<dd>: its style and class attributes, whether it holds
\* a <b> or <strong>, its links in document order and the text after them;
\* sub is the items of a <ul>/<dl> nested in it at its end, none here
Entry(style, cls, bold, links, plain) ==
    [style |-> style, cls |-> cls, bold |-> bold, links |-> links, plain |-> plain,
     sub |-> <<>>]

\* entry e with a nested list of the given items at its end
WithSublist(e, items) == [e EXCEPT !.sub = items]

\* <tr>
Row(style, cls, cells) == [style |-> style, cls |-> cls, cells |-> cells]

\* <h2>..<h4>: name is the heading's title, inside <span class="mw-headline">
\* when headline holds; edit is the text of its <span class="mw-editsection">
Heading(level, headline, name, edit) ==
    [kind |-> "heading", level |-> level, headline |-> headline, name |-> name,
     edit |-> edit, wikitable |-> FALSE, body |-> <<>>]

\* <table>, with class "wikitable" or not; body is its <tr> elements
Table(wikitable, rows) ==
    [kind |-> "table", level |-> 0, headline |-> FALSE, name |-> "",
     edit |-> "", wikitable |-> wikitable, body |-> rows]

\* <ul>/<dl>; body is its <li>/<dd> elements
List(items) ==
    [kind |-> "list", level |-> 0, headline |-> FALSE, name |-> "",
     edit |-> "", wikitable |-> FALSE, body |-> items]

\* any other block, such as <p>
Para ==
    [kind |-> "other", level |-> 0, headline |-> FALSE, name |-> "",
     edit |-> "", wikitable |-> FALSE, body |-> <<>>]

RECURSIVE LinkTexts(_)
LinkTexts(links) ==
    IF links = <<>> THEN "" ELSE links[1].text \o LinkTexts(Tail(links))

RECURSIVE RowText(_)

\* get_text() of a cell or list item: its own text, then its nested list's
EntryText(e) == LinkTexts(e.links) \o e.plain \o RowText(e.sub)

\* get_text() of a row, or of the items of a list
RowText(cells) ==
    IF cells = <<>> THEN "" ELSE EntryText(cells[1]) \o RowText(Tail(cells))

\* find_all(['li', 'dd']) on a list of these items: every item followed by
\* the items nested in it, in document order
RECURSIVE ItemsOf(_)
ItemsOf(items) ==
    IF items = <<>> THEN <<>>
    ELSE <<items[1]>> \o ItemsOf(items[1].sub) \o ItemsOf(Tail(items))

\* find_all(['ul', 'dl']) below a list of these items: the nested lists,
\* each as the sequence of its items, in document order
RECURSIVE ListsIn(_)
ListsIn(items) ==
    IF items = <<>> THEN <<>>
    ELSE (IF items[1].sub = <<>> THEN <<>>
          ELSE <<items[1].sub>> \o ListsIn(items[1].sub))
         \o ListsIn(Tail(items))

\* find_all('a') on a cell or list item: its links, then its nested items'
RECURSIVE LinksOf(_)
LinksOf(items) ==
    IF items = <<>> THEN <<>> ELSE items[1].links \o LinksOf(Tail(items))

AllLinks(e) == LinksOf(ItemsOf(<<e>>))

\* whether find(['b', 'strong']) on a cell or list item finds an element
AnyBold(e) == \E k \in 1..Len(ItemsOf(<<e>>)) : ItemsOf(<<e>>)[k].bold

\* get_text() of a heading
HeadingText(h) == h.name \o h.edit

\* find_previous(['h2', 'h3', 'h4']) from block i: the index of the nearest
\* heading before it, 0 when there is none
PrevHeading(page, i) ==
    LET before == {j \in 1..(i - 1) :
                      page[j].kind = "heading" /\ page[j].level \in {2, 3, 4}}
    IN  IF before = {} THEN 0
        ELSE CHOOSE j \in before : \A k \in before : k <= j

----------------------------------------------------------------------------
(* WikipediaAwardsScraper._clean_text *)

IsDigit(c) == c \in DigitChars

\* the number of digits of s from position i on
RECURSIVE DigitRun(_, _)
DigitRun(s, i) ==
    IF i <= Len(s) /\ IsDigit(Ch(s, i)) THEN 1 + DigitRun(s, i + 1) ELSE 0

\* re.sub(r'\[\d+\]', '', s)
RECURSIVE RemoveCitationsFrom(_, _)
RemoveCitationsFrom(s, i) ==
    IF i > Len(s) THEN ""
    ELSE LET d == DigitRun(s, i + 1)
         IN  IF /\ Ch(s, i) = "["
                /\ d >= 1
                /\ i + d + 1 <= Len(s)
                /\ Ch(s, i + d + 1) = "]"
             THEN RemoveCitationsFrom(s, i + d + 2)
             ELSE Ch(s, i) \o RemoveCitationsFrom(s, i + 1)

\* re.sub of a literal by ''
RECURSIVE RemoveLiteralFrom(_, _, _)
RemoveLiteralFrom(s, lit, i) ==
    IF i > Len(s) THEN ""
    ELSE IF i + Len(lit) - 1 <= Len(s) /\ SubSeq(s, i, i + Len(lit) - 1) = lit
         THEN RemoveLiteralFrom(s, lit, i + Len(lit))
         ELSE Ch(s, i) \o RemoveLiteralFrom(s, lit, i + 1)

CleanText(text) ==
    CollapseWhitespace(RemoveLiteralFrom(RemoveCitationsFrom(text, 1), "[edit]", 1))

----------------------------------------------------------------------------
(* The category classifier *)

MAJOR_CATEGORIES ==
    << "Best Picture", "Best Director", "Best Actor", "Best Actress",
       "Best Supporting Actor", "Best Supporting Actress",
       "Best Original Screenplay", "Best Adapted Screenplay",
       "Best Cinematography", "Best Film Editing", "Best Original Score",
       "Best Original Song", "Best Animated Feature",
       "Best International Feature Film", "Best Documentary Feature" >>

\* any(keyword in text for keyword in keywords)
AnyIn(keywords, text) ==
    \E k \in 1..Len(keywords) : IsSubstring(keywords[k], text)

\* major_cat.lower(), for each major category
MAJOR_LOWER == [k \in 1..Len(MAJOR_CATEGORIES) |-> Lower(MAJOR_CATEGORIES[k])]

IsMajorCategory(cat) == AnyIn(MAJOR_LOWER, Lower(cat))

IsPersonCategory(cat) ==
    AnyIn(<<"actor", "actress", "director", "writer", "screenplay">>, Lower(cat))

\* the role with the actor check made before the director check
GetPersonRole_ActorFirst(cat) ==
    LET category_lower == Lower(cat)
    IN  IF AnyIn(<<"actor", "actress">>, category_lower)
        THEN IF IsSubstring("supporting", category_lower)
             THEN "Supporting Actor" ELSE "Lead Actor"
        ELSE IF IsSubstring("director", category_lower) THEN "Director"
        ELSE IF AnyIn(<<"screenplay", "writer">>, category_lower) THEN "Writer"
        ELSE IF IsSubstring("cinematography", category_lower)
        THEN "Cinematographer"
        ELSE IF IsSubstring("editing", category_lower) THEN "Editor"
        ELSE IF AnyIn(<<"score", "song">>, category_lower) THEN "Composer"
        ELSE "Unknown"

GetPersonRole(cat) ==
    LET category_lower == Lower(cat)
    IN  IF IsSubstring("director", category_lower) THEN "Director"
        ELSE IF AnyIn(<<"actor", "actress">>, category_lower)
        THEN IF IsSubstring("supporting", category_lower)
             THEN "Supporting Actor" ELSE "Lead Actor"
        ELSE IF AnyIn(<<"screenplay", "writer">>, category_lower) THEN "Writer"
        ELSE IF IsSubstring("cinematography", category_lower)
        THEN "Cinematographer"
        ELSE IF IsSubstring("editing", category_lower) THEN "Editor"
        ELSE IF AnyIn(<<"score", "song">>, category_lower) THEN "Composer"
        ELSE "Unknown"

----------------------------------------------------------------------------
(* The winner detector *)

\* stands for the trophy glyph U+1F3C6
Trophy == "{trophy}"

WINNER_COLORS == <<"#faeb86", "#ffc", "gold", "yellow", "winner">>

\* _is_winner_row taking any background on the row for a highlight
IsWinnerRow_AnyRowBackground(r) ==
    LET text == RowText(r.cells)
    IN  IF \E i \in 1..Len(r.cells) : AnyBold(r.cells[i]) THEN TRUE
        ELSE IF IsSubstring("background", Lower(r.style)) THEN TRUE
        ELSE IF IsSubstring(Trophy, text) \/ IsSubstring("winner", Lower(text))
        THEN TRUE
        ELSE IF r.cells # <<>>
        THEN IF IsSubstring("background", Lower(r.cells[1].style)) THEN TRUE
             ELSE IsSubstring("winner", Lower(r.cells[1].cls))
        ELSE FALSE

\* _is_winner_row without the check of the first cell's class
IsWinnerRow_NoCellClass(r) ==
    LET style == Lower(r.style)
        text == RowText(r.cells)
    IN  IF \E i \in 1..Len(r.cells) : AnyBold(r.cells[i]) THEN TRUE
        ELSE IF IsSubstring("background", style) /\ AnyIn(WINNER_COLORS, style)
        THEN TRUE
        ELSE IF IsSubstring(Trophy, text) \/ IsSubstring("winner", Lower(text))
        THEN TRUE
        ELSE IF r.cells # <<>>
        THEN IsSubstring("background", Lower(r.cells[1].style))
        ELSE FALSE

IsWinnerRow(r) ==
    LET style == Lower(r.style)
        text == RowText(r.cells)
    IN  \* Method 1: row.find('b') or row.find('strong')
        IF \E i \in 1..Len(r.cells) : AnyBold(r.cells[i]) THEN TRUE
        \* Method 2: the row's background colour
        ELSE IF IsSubstring("background", style) /\ AnyIn(WINNER_COLORS, style)
        THEN TRUE
        \* Method 3: trophy or "winner" in the text
        ELSE IF IsSubstring(Trophy, text) \/ IsSubstring("winner", Lower(text))
        THEN TRUE
        \* Method 4: the first cell's style and class
        ELSE IF r.cells # <<>>
        THEN IF IsSubstring("background", Lower(r.cells[1].style)) THEN TRUE
             ELSE IsSubstring("winner", Lower(r.cells[1].cls))
        ELSE FALSE

\* the winner test of _parse_list_items, on the item and its cleaned text
IsWinnerItem(item, text) ==
    AnyBold(item) \/ IsSubstring("(winner)", Lower(text))

----------------------------------------------------------------------------
(* Building Awards *)

FIRST_CEREMONY_YEAR == 1929

\* the ceremony number counted from 0
CeremonyNumber_FromZero(y) == y - FIRST_CEREMONY_YEAR

CeremonyNumber(y) == y - FIRST_CEREMONY_YEAR + 1

\* find_all('a', href=True)
WithHref(links) == SelectSeq(links, LAMBDA l : l.href # None)

\* the loop over links taking a second link as the person in any category
RECURSIVE LinkRoles_AnyCategory(_, _, _, _)
LinkRoles_AnyCategory(links, i, cat, acc) ==
    IF i > Len(links) THEN acc
    ELSE LET link_text == CleanText(links[i].text)
             href == links[i].href
         IN  IF link_text = "" \/ StartsWith(href, "#")
             THEN LinkRoles_AnyCategory(links, i + 1, cat, acc)
             ELSE IF acc.movie_title = None
             THEN LinkRoles_AnyCategory(links, i + 1, cat,
                                        [acc EXCEPT !.movie_title = link_text])
             ELSE IF acc.person_name = None
             THEN LinkRoles_AnyCategory(links, i + 1, cat,
                                        [acc EXCEPT !.person_name = link_text])
             ELSE LinkRoles_AnyCategory(links, i + 1, cat, acc)

\* the loop over links: the first link with text and a target that is no
\* fragment is the film, the next one the person in a person category
RECURSIVE LinkRoles(_, _, _, _)
LinkRoles(links, i, cat, acc) ==
    IF i > Len(links) THEN acc
    ELSE LET link_text == CleanText(links[i].text)
             href == links[i].href
         IN  IF link_text = "" \/ StartsWith(href, "#")
             THEN LinkRoles(links, i + 1, cat, acc)
             ELSE IF acc.movie_title = None
             THEN LinkRoles(links, i + 1, cat,
                            [acc EXCEPT !.movie_title = link_text])
             ELSE IF acc.person_name = None /\ IsPersonCategory(cat)
             THEN LinkRoles(links, i + 1, cat,
                            [acc EXCEPT !.person_name = link_text])
             ELSE LinkRoles(links, i + 1, cat, acc)

\* an Award that is a nomination only if it did not win
NewAward_WonOrNominated(y, number, cat, links, is_winner) ==
    LET roles == LinkRoles(links, 1, cat,
                           [movie_title |-> None, person_name |-> None])
    IN  [award_name |-> "Academy Awards",
         ceremony_year |-> y,
         ceremony_number |-> number,
         category |-> cat,
         movie_title |-> roles.movie_title,
         person_name |-> roles.person_name,
         person_role |-> IF roles.person_name # None
                         THEN GetPersonRole(cat) ELSE None,
         won |-> is_winner,
         nominated |-> ~is_winner]

\* an Award given the category's role whether or not a person was found
NewAward_RoleAlways(y, number, cat, links, is_winner) ==
    LET roles == LinkRoles(links, 1, cat,
                           [movie_title |-> None, person_name |-> None])
    IN  [award_name |-> "Academy Awards",
         ceremony_year |-> y,
         ceremony_number |-> number,
         category |-> cat,
         movie_title |-> roles.movie_title,
         person_name |-> roles.person_name,
         person_role |-> GetPersonRole(cat),
         won |-> is_winner,
         nominated |-> TRUE]

NewAward(y, number, cat, links, is_winner) ==
    LET roles == LinkRoles(links, 1, cat,
                           [movie_title |-> None, person_name |-> None])
    IN  [award_name |-> "Academy Awards",
         ceremony_year |-> y,
         ceremony_number |-> number,
         category |-> cat,
         movie_title |-> roles.movie_title,
         person_name |-> roles.person_name,
         person_role |-> IF roles.person_name # None
                         THEN GetPersonRole(cat) ELSE None,
         won |-> is_winner,
         nominated |-> TRUE]

\* str(n) for n >= 0, as json.dump writes an int
RECURSIVE IntToStr(_)
IntToStr(n) ==
    IF n < 10 THEN Ch(DIGITS, n + 1)
    ELSE IntToStr(n \div 10) \o Ch(DIGITS, (n % 10) + 1)

BoolToStr(b) == IF b THEN "True" ELSE "False"

\* Award.to_dict(), written to JSON and read back
AwardToDict(a) ==
    [award_name |-> a.award_name,
     ceremony_year |-> IntToStr(a.ceremony_year),
     ceremony_number |-> IntToStr(a.ceremony_number),
     category |-> a.category,
     movie_title |-> a.movie_title,
     movie_tmdb_id |-> None,
     movie_imdb_id |-> None,
     person_name |-> a.person_name,
     person_role |-> a.person_role,
     won |-> BoolToStr(a.won),
     nominated |-> BoolToStr(a.nominated),
     announcement_date |-> None,
     ceremony_date |-> None,
     notes |-> ""]

\* the body of _parse_nominees_table's loop: the Awards one row adds
ParseRow(r, cat, y, number) ==
    IF Len(r.cells) < 1 THEN <<>>
    ELSE LET is_winner == IsWinnerRow(r)
             links == WithHref(AllLinks(r.cells[1]))
         IN  IF links = <<>> THEN <<>>
             ELSE <<NewAward(y, number, cat, links, is_winner)>>

RECURSIVE ParseRowsFrom(_, _, _, _, _)
ParseRowsFrom(rows, i, cat, y, number) ==
    IF i > Len(rows) THEN <<>>
    ELSE ParseRow(rows[i], cat, y, number)
         \o ParseRowsFrom(rows, i + 1, cat, y, number)

\* the loop over all of the table's rows, the first one too
ParseNomineesTable_AllRows(table, cat, y, number) ==
    ParseRowsFrom(table.body, 1, cat, y, number)

\* for row in rows[1:]
ParseNomineesTable(table, cat, y, number) ==
    ParseRowsFrom(table.body, 2, cat, y, number)

\* the body of _parse_list_items's loop: the Awards one item adds
ParseItem(item, cat, y, number) ==
    LET text == CleanText(EntryText(item))
    IN  IF text = "" \/ Len(text) < 3 THEN <<>>
        ELSE LET is_winner == IsWinnerItem(item, text)
                 links == WithHref(AllLinks(item))
             IN  IF links = <<>> THEN <<>>
                 ELSE <<NewAward(y, number, cat, links, is_winner)>>

RECURSIVE ParseItemsFrom(_, _, _, _, _)
ParseItemsFrom(items, i, cat, y, number) ==
    IF i > Len(items) THEN <<>>
    ELSE ParseItem(items[i], cat, y, number)
         \o ParseItemsFrom(items, i + 1, cat, y, number)

\* items = list_elem.find_all(['li', 'dd']); for item in items
ParseListItems(list_elem, cat, y, number) ==
    ParseItemsFrom(ItemsOf(list_elem.body), 1, cat, y, number)

----------------------------------------------------------------------------
(* The three strategies *)

\* _find_category_header for the table at block i: it removes the edit
\* section of the heading it finds from the tree, and reads the category
FindCategoryHeader(page, i) ==
    LET h == PrevHeading(page, i)
    IN  IF h = 0 THEN [category |-> None, soup |-> page]
        ELSE LET decomposed == [page EXCEPT ![h].edit = ""]
             IN  [category |->
                      IF decomposed[h].headline
                      THEN CleanText(decomposed[h].name)
                      ELSE CleanText(HeadingText(decomposed[h])),
                  soup |-> decomposed]

\* _parse_standard_tables: the Awards, and the tree as it leaves it
RECURSIVE StandardTablesFrom(_, _, _, _, _)
StandardTablesFrom(page, i, y, number, acc) ==
    IF i > Len(page) THEN [awards |-> acc, soup |-> page]
    ELSE IF ~(page[i].kind = "table" /\ page[i].wikitable)
    THEN StandardTablesFrom(page, i + 1, y, number, acc)
    ELSE LET found == FindCategoryHeader(page, i)
         IN  IF found.category = None \/ found.category = ""
             THEN StandardTablesFrom(found.soup, i + 1, y, number, acc)
             ELSE IF ~IsMajorCategory(found.category)
             THEN StandardTablesFrom(found.soup, i + 1, y, number, acc)
             ELSE StandardTablesFrom(found.soup, i + 1, y, number,
                      acc \o ParseNomineesTable(found.soup[i], found.category,
                                                y, number))

ParseStandardTables(page, y, number) ==
    StandardTablesFrom(page, 1, y, number, <<>>)

\* the while loop of _parse_by_sections, not stopping at the next heading
RECURSIVE SectionContent_PastHeadings(_, _, _, _, _)
SectionContent_PastHeadings(page, j, cat, y, number) ==
    IF j > Len(page) THEN <<>>
    ELSE IF page[j].kind = "table"
    THEN ParseNomineesTable(page[j], cat, y, number)
    ELSE IF page[j].kind = "list"
    THEN ParseListItems(page[j], cat, y, number)
    ELSE SectionContent_PastHeadings(page, j + 1, cat, y, number)

\* the while loop of _parse_by_sections, stopping at an <h2> only
RECURSIVE SectionContent_TopLevelOnly(_, _, _, _, _)
SectionContent_TopLevelOnly(page, j, cat, y, number) ==
    IF j > Len(page) THEN <<>>
    ELSE IF page[j].kind = "heading" /\ page[j].level = 2 THEN <<>>
    ELSE IF page[j].kind = "table"
    THEN ParseNomineesTable(page[j], cat, y, number)
    ELSE IF page[j].kind = "list"
    THEN ParseListItems(page[j], cat, y, number)
    ELSE SectionContent_TopLevelOnly(page, j + 1, cat, y, number)

\* the while loop of _parse_by_sections, from sibling j on
RECURSIVE SectionContent(_, _, _, _, _)
SectionContent(page, j, cat, y, number) ==
    IF j > Len(page) THEN <<>>
    ELSE IF page[j].kind = "heading" /\ page[j].level \in {2, 3, 4} THEN <<>>
    ELSE IF page[j].kind = "table"
    THEN ParseNomineesTable(page[j], cat, y, number)
    ELSE IF page[j].kind = "list"
    THEN ParseListItems(page[j], cat, y, number)
    ELSE SectionContent(page, j + 1, cat, y, number)

RECURSIVE SectionsFrom(_, _, _, _)
SectionsFrom(page, i, y, number) ==
    IF i > Len(page) THEN <<>>
    ELSE IF ~(page[i].kind = "heading" /\ page[i].level \in {2, 3})
    THEN SectionsFrom(page, i + 1, y, number)
    ELSE IF ~page[i].headline
    THEN SectionsFrom(page, i + 1, y, number)
    ELSE LET cat == CleanText(page[i].name)
         IN  IF ~IsMajorCategory(cat)
             THEN SectionsFrom(page, i + 1, y, number)
             ELSE SectionContent(page, i + 1, cat, y, number)
                  \o SectionsFrom(page, i + 1, y, number)

ParseBySections(page, y, number) == SectionsFrom(page, 1, y, number)

\* the loop of _parse_lists over the lists nested in one list block, which
\* has a major heading before it: each is parsed in its turn
RECURSIVE NestedListsFrom(_, _, _, _, _)
NestedListsFrom(lists, k, cat, y, number) ==
    IF k > Len(lists) THEN <<>>
    ELSE ParseListItems(List(lists[k]), cat, y, number)
         \o NestedListsFrom(lists, k + 1, cat, y, number)

\* the loop of _parse_lists over soup.find_all(['ul', 'dl']): every list
\* block, then the lists nested in it, whose nearest heading is the block's
RECURSIVE ListsFrom(_, _, _, _)
ListsFrom(page, i, y, number) ==
    IF i > Len(page) THEN <<>>
    ELSE IF page[i].kind # "list" THEN ListsFrom(page, i + 1, y, number)
    ELSE LET h == PrevHeading(page, i)
         IN  IF h = 0 THEN ListsFrom(page, i + 1, y, number)
             ELSE LET cat == CleanText(HeadingText(page[h]))
                  IN  IF ~IsMajorCategory(cat)
                      THEN ListsFrom(page, i + 1, y, number)
                      ELSE ParseListItems(page[i], cat, y, number)
                           \o NestedListsFrom(ListsIn(page[i].body), 1, cat,
                                              y, number)
                           \o ListsFrom(page, i + 1, y, number)

ParseLists(page, y, number) == ListsFrom(page, 1, y, number)

\* what scrape_year returns for year y when _fetch_page returns page
ScrapeYearOn(page, y) ==
    LET number == CeremonyNumber(y)
        tables == ParseStandardTables(page, y, number)
        sections == ParseBySections(tables.soup, y, number)
    IN  IF tables.awards # <<>> THEN tables.awards
        ELSE IF sections # <<>> THEN sections
        ELSE ParseLists(tables.soup, y, number)

----------------------------------------------------------------------------
(* scrape_movies and scrape_category: the rows of the wikitables *)

\* an inline element of a cell: tag is "text", "i", "b", "ib" for <i><b>,
\* "bi" for <b><i>, or "sb" for <span style="font-weight:bold">
Inline(tag, text) == [tag |-> tag, text |-> text]

\* a <tr>: the text of its <th>, None without one, and its <td> cells,
\* each a sequence of inline elements
ScanRow(th, tds) == [th |-> th, tds |-> tds]

ITALIC_TAGS == {"i", "ib", "bi"}
BOLD_TAGS == {"b", "ib", "bi"}

RECURSIVE InlineText(_, _)
InlineText(td, i) ==
    IF i > Len(td) THEN "" ELSE td[i].text \o InlineText(td, i + 1)

RECURSIVE CellsText(_, _)
CellsText(tds, i) ==
    IF i > Len(tds) THEN "" ELSE InlineText(tds[i], 1) \o CellsText(tds, i + 1)

\* row.text
ScanRowText(r) == (IF r.th = None THEN "" ELSE r.th) \o CellsText(r.tds, 1)

\* the inline elements of the row's cells, in document order
RECURSIVE Inlines(_, _)
Inlines(tds, i) == IF i > Len(tds) THEN <<>> ELSE tds[i] \o Inlines(tds, i + 1)

\* row.find(tag): the index in Inlines of the first element so tagged, or 0
FindInline(r, tags) ==
    LET es == Inlines(r.tds, 1)
        hits == {i \in 1..Len(es) : es[i].tag \in tags}
    IN  IF hits = {} THEN 0 ELSE CHOOSE i \in hits : \A j \in hits : i <= j

\* re.search(r"\d{4}", s)
HasYearToken(s) ==
    \E i \in 1..(Len(s) - 3) : \A k \in i..(i + 3) : IsDigit(Ch(s, k))

\* s.strip()
RECURSIVE Strip(_)
Strip(s) ==
    IF s = "" THEN ""
    ELSE IF IsSpace(Ch(s, 1)) THEN Strip(SubSeq(s, 2, Len(s)))
    ELSE IF IsSpace(Ch(s, Len(s))) THEN Strip(SubSeq(s, 1, Len(s) - 1))
    ELSE s

\* the length of the run of \w characters of s from position i
RECURSIVE WordRun(_, _)
WordRun(s, i) ==
    IF i <= Len(s) /\ IsWordChar(Ch(s, i)) THEN 1 + WordRun(s, i + 1) ELSE 0

\* re.sub(r"\[\w+\]", "", s), from position i
RECURSIVE RemoveFootnotesFrom(_, _)
RemoveFootnotesFrom(s, i) ==
    IF i > Len(s) THEN ""
    ELSE LET n == WordRun(s, i + 1)
         IN  IF /\ Ch(s, i) = "["
                /\ n > 0
                /\ i + n + 1 <= Len(s)
                /\ Ch(s, i + n + 1) = "]"
             THEN RemoveFootnotesFrom(s, i + n + 2)
             ELSE Ch(s, i) \o RemoveFootnotesFrom(s, i + 1)

\* clean_title and clean_text
CleanTitle(s) == Strip(RemoveFootnotesFrom(s, 1))

\* the year tracking that loses the carried year on a row without a token
TrackYear_Reset(r, year_before) ==
    IF r.th # None /\ HasYearToken(r.th) THEN Split(r.th)[1] ELSE None

\* if th_col and re.search(r"\d{4}", th_col.text):
\*     current_year = th_col.text.strip().split()[0]
TrackYear(r, year_before) ==
    IF r.th # None /\ HasYearToken(r.th) THEN Split(r.th)[1] ELSE year_before

NoCols(r) == r.th = None /\ r.tds = <<>>

\* the body of scrape_movies' loop over rows: the carried year after the
\* row, and the records it appends
MovieRow(r, index, year_before) ==
    IF NoCols(r) THEN [current_year |-> year_before, records |-> <<>>]
    ELSE
    LET tracked == TrackYear(r, year_before)
        i == FindInline(r, ITALIC_TAGS)
        es == Inlines(r.tds, 1)
        title_text ==
            IF i # 0 THEN CleanTitle(es[i].text)
            ELSE CleanTitle(InlineText(r.tds[1], 1))
        winner ==
            IF i # 0 THEN es[i].tag = "ib"
            ELSE \E k \in 1..Len(r.tds[1]) :
                    r.tds[1][k].tag \in BOLD_TAGS \cup {"sb"}
    IN  IF index = 0 /\ IsSubstring("Film", ScanRowText(r))
        THEN [current_year |-> tracked, records |-> <<>>]
        ELSE IF i = 0 /\ r.tds = <<>>
        THEN [current_year |-> tracked, records |-> <<>>]
        ELSE IF title_text = ""
        THEN [current_year |-> tracked, records |-> <<>>]
        ELSE [current_year |-> tracked,
              records |-> <<[Year |-> tracked, Title |-> title_text,
                             Winner |-> winner]>>]

\* the body of scrape_category's loop over rows
CategoryRow(r, index, year_before, name) ==
    IF NoCols(r) THEN [current_year |-> year_before, records |-> <<>>]
    ELSE
    LET tracked == TrackYear(r, year_before)
        b == FindInline(r, BOLD_TAGS)
        i == FindInline(r, ITALIC_TAGS)
        es == Inlines(r.tds, 1)
        nominee_name ==
            IF b # 0 THEN CleanTitle(es[b].text)
            ELSE CleanTitle(InlineText(r.tds[1], 1))
        movie == IF i # 0 THEN CleanTitle(es[i].text) ELSE ""
    IN  IF index = 0 /\ IsSubstring(name, ScanRowText(r))
        THEN [current_year |-> tracked, records |-> <<>>]
        ELSE IF b = 0 /\ r.tds = <<>>
        THEN [current_year |-> tracked, records |-> <<>>]
        ELSE IF nominee_name = ""
        THEN [current_year |-> tracked, records |-> <<>>]
        ELSE [current_year |-> tracked,
              records |-> <<[Year |-> tracked, Nominee |-> nominee_name,
                             Movie |-> movie, Winner |-> b # 0]>>]

----------------------------------------------------------------------------
(* enrich_awards_with_movie_data: dicts, the lookup, one loop iteration *)

\* d.get(k)
Get(d, k) == IF k \in DOMAIN d THEN d[k] ELSE None

\* d[k] = v
SetKey(d, k, v) == [y \in DOMAIN d \cup {k} |-> IF y = k THEN v ELSE d[y]]

\* the truth value of a string or None
Truthy(v) == v # None /\ v # ""

\* a dict assignment that keeps the value a key already has
LookupPut_FirstWins(lookup, k, m) ==
    IF \E j \in 1..Len(lookup) : lookup[j].key = k
    THEN lookup
    ELSE Append(lookup, [key |-> k, movie |-> m])

\* movie_lookup[k] = m on a dict that keeps its keys in insertion order
LookupPut(lookup, k, m) ==
    IF \E j \in 1..Len(lookup) : lookup[j].key = k
    THEN [j \in 1..Len(lookup) |->
            IF lookup[j].key = k THEN [key |-> k, movie |-> m] ELSE lookup[j]]
    ELSE Append(lookup, [key |-> k, movie |-> m])

\* the dict comprehension over movies, from movie i on
RECURSIVE LookupFrom(_, _, _)
LookupFrom(ms, i, lookup) ==
    IF i > Len(ms) THEN lookup
    ELSE LookupFrom(ms, i + 1,
                    LookupPut(lookup, NormalizeTitle(ms[i].title), ms[i]))

BuildLookup(ms) == LookupFrom(ms, 1, <<>>)

LINK_KEYS == {"movie_tmdb_id", "movie_imdb_id"}

\* the two identifiers written under each other's key
WithMovieIds_Swapped(enriched, movie) ==
    SetKey(SetKey(enriched, "movie_tmdb_id", Get(movie, "imdb_id")),
           "movie_imdb_id", Get(movie, "tmdb_id"))

\* the two assignments to enriched
WithMovieIds(enriched, movie) ==
    SetKey(SetKey(enriched, "movie_tmdb_id", Get(movie, "tmdb_id")),
           "movie_imdb_id", Get(movie, "imdb_id"))

\* the lookup scanned before the key is looked up
MatchIndex_ScanFirst(award, lookup) ==
    IF ~Truthy(Get(award, "movie_title")) THEN 0
    ELSE LET normalized_title == NormalizeTitle(award.movie_title)
             direct == {j \in 1..Len(lookup) : lookup[j].key = normalized_title}
             fuzzy == {j \in 1..Len(lookup) :
                          MatchMovieToAward(lookup[j].movie.title,
                                            award.movie_title, DefaultThreshold)}
         IN  IF fuzzy # {}
             THEN CHOOSE j \in fuzzy : \A k \in fuzzy : j <= k
             ELSE IF direct # {} THEN CHOOSE j \in direct : TRUE
             ELSE 0

\* the entry of the lookup an award is linked to, 0 if none
MatchIndex(award, lookup) ==
    IF ~Truthy(Get(award, "movie_title")) THEN 0
    ELSE LET normalized_title == NormalizeTitle(award.movie_title)
             direct == {j \in 1..Len(lookup) : lookup[j].key = normalized_title}
             fuzzy == {j \in 1..Len(lookup) :
                          MatchMovieToAward(lookup[j].movie.title,
                                            award.movie_title, DefaultThreshold)}
         IN  IF direct # {} THEN CHOOSE j \in direct : TRUE
             ELSE IF fuzzy # {}
             THEN CHOOSE j \in fuzzy : \A k \in fuzzy : j <= k
             ELSE 0

\* one iteration of the loop that writes to the award itself, not to a copy
EnrichOne_NoCopy(award, lookup) ==
    LET j == MatchIndex(award, lookup)
        enriched == IF j = 0 THEN award ELSE WithMovieIds(award, lookup[j].movie)
    IN  [award |-> enriched, enriched |-> enriched]

\* one iteration of the loop: the award after it, and the dict appended
EnrichOne(award, lookup) ==
    LET j == MatchIndex(award, lookup)
        enriched == award
    IN  [award |-> award,
         enriched |-> IF j = 0 THEN enriched
                      ELSE WithMovieIds(enriched, lookup[j].movie)]

----------------------------------------------------------------------------
(* Inputs *)

MaxTitleLen == 4
MaxMatchLen == 2

TitleAlphabet == {"T", "t", "h", "e", "a", "n", " ", "."}
MatchAlphabet == {"a", "b", "c", " ", "-"}

TheDarkKnight == "the dark knight"
DarkKnightRises == "dark knight rises"

TitleInputs == StringsUpTo(TitleAlphabet, MaxTitleLen)

StarWars == "Star Wars"
WarsStarTrek == "Wars: Star Trek II"

MatchInputs ==
    StringsUpTo(MatchAlphabet, MaxMatchLen)
    \cup {TheDarkKnight, DarkKnightRises, StarWars, WarsStarTrek}

Thresholds == {5, DefaultThreshold}

\* ---- pages

MaxBlocks == 3
MaxLinks == 2

\* _fetch_page's max_retries
MAX_RETRIES == 3

Years == {1929, 2024}

FilmLink == Link("Oppenheimer", "/wiki/Oppenheimer_(film)")
PersonLink == Link("Christopher Nolan", "/wiki/Christopher_Nolan")
OtherFilmLink == Link("Barbie", "/wiki/Barbie_(film)")
ShortFilmLink == Link("Up", "/wiki/Up_(2009_film)")
CiteLink == Link("[1]", "#cite_note-1")
ImageLink == Link("", "/wiki/File:Poster.jpg")
AnchorLink == Link("Nolan", None)

WinEntry == Entry("", "", TRUE, <<FilmLink, PersonLink>>, "")
NomEntry == Entry("", "", FALSE, <<OtherFilmLink>>, "")
CiteEntry == Entry("", "", FALSE, <<CiteLink>>, "Untitled")
ShortEntry == Entry("", "", FALSE, <<ShortFilmLink>>, "")
HeaderCell == Entry("", "", FALSE, <<>>, "Film")
PlainCell == Entry("", "", FALSE, <<OtherFilmLink>>, "")

HeaderRow == Row("", "", <<HeaderCell>>)
WinRow == Row("background:#FAEB86", "", <<WinEntry>>)
NomRow == Row("", "", <<NomEntry>>)
CiteRow == Row("", "", <<CiteEntry>>)

Headings ==
    { Heading(2, TRUE, "Best Picture", "[edit]"),
      Heading(3, TRUE, "Best Director", "[edit]"),
      Heading(4, TRUE, "Best Picture", "[edit]"),
      Heading(3, FALSE, "Best Picture", ""),
      Heading(2, TRUE, "Notes", "[edit]") }

Tables ==
    { Table(TRUE, <<HeaderRow, WinRow, NomRow>>),
      Table(FALSE, <<HeaderRow, NomRow>>),
      Table(TRUE, <<HeaderRow, CiteRow>>),
      Table(TRUE, <<WinRow>>) }

\* <li>Oppenheimer ... <ul><li>Barbie</li></ul></li>
OuterEntry == WithSublist(WinEntry, <<NomEntry>>)

Lists ==
    { List(<<WinEntry, NomEntry>>),
      List(<<CiteEntry, ShortEntry>>),
      List(<<OuterEntry>>) }

Blocks == Headings \cup Tables \cup Lists \cup {Para}

SeqsUpTo(S, n) == UNION {[1..k -> S] : k \in 0..n}

Pages == SeqsUpTo(Blocks, MaxBlocks)

\* ---- single entries

EntryLinks == {FilmLink, PersonLink, CiteLink, ImageLink, AnchorLink}

RowStyles == {"", "background:#eee", "Background: Gold"}
CellStyles == {"", "background:#eee", "color:gold"}
CellClasses == {"", "nominee Winner"}
PlainTexts == {"", " (Winner)", Trophy}

EntryCells ==
    { Entry(s, c, b, l, p) :
        s \in CellStyles, c \in CellClasses, b \in BOOLEAN,
        l \in SeqsUpTo(EntryLinks, MaxLinks), p \in PlainTexts }

\* cells after the first one: their style and class are not the first cell's
LaterCells ==
    { Entry("background:gold", "winner", FALSE, <<>>, ""),
      Entry("", "", TRUE, <<>>, "") }

EntryRows ==
    { Row(s, c, cells) :
        s \in RowStyles, c \in {"", "winner"},
        cells \in {<<>>} \cup {<<e>> : e \in EntryCells}
                  \cup {<<PlainCell, e>> : e \in LaterCells} }

EntryCategories == {"Best Picture", "Best Director"}

EntryYear == CHOOSE y \in Years : \A z \in Years : z <= y

----------------------------------------------------------------------------
(* Initial values of each group of variables *)

\* enrichment inputs: Award.to_dict() and Movie.to_dict() records, and
\* records read back from storage with fewer keys
MaxAwards == 2
MaxMovies == 2

AwardDicts ==
    { [category |-> "Best Picture", movie_title |-> "Oppenheimer",
       won |-> "True", movie_tmdb_id |-> None, movie_imdb_id |-> None],
      [category |-> "Best Picture", movie_title |-> "Barbie", won |-> "False"],
      [category |-> "Best Picture", movie_title |-> "Maestro", won |-> "False",
       movie_tmdb_id |-> "523607", movie_imdb_id |-> "tt5535276"],
      [category |-> "Best Director", movie_title |-> None, won |-> "False",
       movie_tmdb_id |-> None, movie_imdb_id |-> None],
      [category |-> "Best Picture", movie_title |-> "Barbie 2", won |-> "False",
       movie_tmdb_id |-> "7", movie_imdb_id |-> None],
      [category |-> "Best Director", won |-> "True"],
      [category |-> "Best Picture", movie_title |-> "The", won |-> "False"] }

MovieDicts ==
    { [title |-> "Oppenheimer", tmdb_id |-> "872585", imdb_id |-> "tt15398776"],
      [title |-> "The Oppenheimer", tmdb_id |-> "1"],
      [title |-> "Barbie", tmdb_id |-> "346698", imdb_id |-> "tt1517268"],
      [title |-> "Barbie 2", tmdb_id |-> "3", imdb_id |-> None],
      [title |-> "Bar", tmdb_id |-> "2", imdb_id |-> "tt2"],
      [title |-> "A!", tmdb_id |-> "9", imdb_id |-> "tt9"] }

AwardLists == SeqsUpTo(AwardDicts, MaxAwards)
MovieLists == SeqsUpTo(MovieDicts, MaxMovies)

NormIdle ==
    /\ title = ""
    /\ normalized = None
    /\ renormalized = None
    /\ npc = "idle"

MatchIdle ==
    /\ movie_title = ""
    /\ award_movie_title = ""
    /\ threshold = DefaultThreshold
    /\ matched = None
    /\ tier = None
    /\ mpc = "idle"

ScrapeIdle ==
    /\ year = 0
    /\ attempt = 0
    /\ soup = None
    /\ awards = <<>>
    /\ result = None
    /\ pc = "idle"
    /\ fetched = None
    /\ calls = <<>>

EntryIdle ==
    /\ row = None
    /\ category = ""
    /\ rowWon = None
    /\ rowAwards = None
    /\ itemAwards = None
    /\ epc = "idle"

EnrichIdle ==
    /\ awards_in = <<>>
    /\ movies = <<>>
    /\ movie_lookup = <<>>
    /\ enriched_awards = <<>>
    /\ xi = 0
    /\ xpc = "idle"
    /\ awards0 = <<>>
    /\ movies0 = <<>>

YearsIdle ==
    /\ start_year = 0
    /\ end_year = 0
    /\ cur_year = 0
    /\ all_awards = <<>>
    /\ seen = <<>>
    /\ ypc = "idle"

RoleIdle ==
    /\ role_category = ""
    /\ person_role = None
    /\ rpc = "idle"

ScanIdle ==
    /\ scraper = ""
    /\ category_name = ""
    /\ skip_tables = {}
    /\ table_index = 0
    /\ row_index = 0
    /\ current_year = None
    /\ data = <<>>
    /\ scanned = <<>>
    /\ kpc = "idle"

----------------------------------------------------------------------------
(* SpecNormalize: _normalize_title applied to a title, then to its result *)

InitNormalize ==
    /\ title \in TitleInputs
    /\ normalized = None
    /\ renormalized = None
    /\ npc = "input"
    /\ MatchIdle
    /\ ScrapeIdle
    /\ EntryIdle
    /\ EnrichIdle
    /\ YearsIdle
    /\ ScanIdle
    /\ RoleIdle

Normalize ==
    /\ npc = "input"
    /\ normalized' = NormalizeTitle(title)
    /\ npc' = "once"
    /\ UNCHANGED <<title, renormalized, matchVars, scrapeVars, entryVars,
                   enrichVars, yearsVars, scanVars, roleVars>>

NormalizeAgain ==
    /\ npc = "once"
    /\ renormalized' = NormalizeTitle(normalized)
    /\ npc' = "twice"
    /\ UNCHANGED <<title, normalized, matchVars, scrapeVars, entryVars,
                   enrichVars, yearsVars, scanVars, roleVars>>

NextNormalize == Normalize \/ NormalizeAgain

SpecNormalize == InitNormalize /\ [][NextNormalize]_vars

----------------------------------------------------------------------------
(* SpecMatch: one call of match_movie_to_award *)

InitMatch ==
    /\ movie_title \in MatchInputs
    /\ award_movie_title \in MatchInputs
    /\ threshold \in Thresholds
    /\ matched = None
    /\ tier = None
    /\ mpc = "input"
    /\ NormIdle
    /\ ScrapeIdle
    /\ EntryIdle
    /\ EnrichIdle
    /\ YearsIdle
    /\ ScanIdle
    /\ RoleIdle

Match ==
    /\ mpc = "input"
    /\ LET d == MatchDecision(movie_title, award_movie_title, threshold)
       IN  /\ matched' = d.result
           /\ tier' = d.tier
    /\ mpc' = "done"
    /\ UNCHANGED <<movie_title, award_movie_title, threshold, normVars,
                   scrapeVars, entryVars, enrichVars, yearsVars, scanVars,
                   roleVars>>

NextMatch == Match

SpecMatch == InitMatch /\ [][NextMatch]_vars

----------------------------------------------------------------------------
(* Spec: one call of scrape_year.  _fetch_page tries up to MAX_RETRIES      *)
(* times; what the network returns is the environment's choice.             *)

Init ==
    /\ year \in Years
    /\ attempt = 0
    /\ soup = None
    /\ awards = <<>>
    /\ result = None
    /\ pc = "fetch"
    /\ fetched = None
    /\ calls = <<>>
    /\ NormIdle
    /\ MatchIdle
    /\ EntryIdle
    /\ EnrichIdle
    /\ YearsIdle
    /\ ScanIdle
    /\ RoleIdle

Called(strategy, returned) == [strategy |-> strategy, returned |-> returned]

\* an attempt of _fetch_page succeeds: the parsed page is returned
FetchReturns ==
    /\ pc = "fetch"
    /\ \E page \in Pages :
        /\ soup' = page
        /\ fetched' = page
    /\ attempt' = 0
    /\ awards' = <<>>
    /\ pc' = "tables"
    /\ UNCHANGED <<year, result, calls,
                   normVars, matchVars, entryVars, enrichVars, yearsVars,
                   scanVars, roleVars>>

\* the retry taken after the last attempt too
FetchRetries_OneMore ==
    /\ pc = "fetch"
    /\ attempt < MAX_RETRIES
    /\ attempt' = attempt + 1
    /\ UNCHANGED <<year, soup, awards, result, pc, fetched, calls,
                   normVars, matchVars, entryVars, enrichVars, yearsVars,
                   scanVars, roleVars>>

\* an attempt fails and is not the last: sleep, then try again
FetchRetries ==
    /\ pc = "fetch"
    /\ attempt < MAX_RETRIES - 1
    /\ attempt' = attempt + 1
    /\ UNCHANGED <<year, soup, awards, result, pc, fetched, calls,
                   normVars, matchVars, entryVars, enrichVars, yearsVars,
                   scanVars, roleVars>>

\* the last attempt fails and the exception leaves scrape_year
FetchRaises_Propagates ==
    /\ pc = "fetch"
    /\ attempt = MAX_RETRIES - 1
    /\ attempt' = 0
    /\ pc' = "raised"
    /\ UNCHANGED <<year, soup, awards, result, fetched, calls,
                   normVars, matchVars, entryVars, enrichVars, yearsVars,
                   scanVars, roleVars>>

\* the last attempt fails: _fetch_page raises, scrape_year's except clause
\* logs the error and returns []
FetchRaises ==
    /\ pc = "fetch"
    /\ attempt = MAX_RETRIES - 1
    /\ attempt' = 0
    /\ result' = <<>>
    /\ pc' = "done"
    /\ UNCHANGED <<year, soup, awards, fetched, calls,
                   normVars, matchVars, entryVars, enrichVars, yearsVars,
                   scanVars, roleVars>>

\* Strategy 1: awards = self._parse_standard_tables(...)
TryTables ==
    /\ pc = "tables"
    /\ LET r == ParseStandardTables(soup, year, CeremonyNumber(year))
       IN  /\ awards' = r.awards
           /\ soup' = r.soup
           /\ calls' = Append(calls, Called("table", r.awards))
    /\ pc' = "sections"
    /\ UNCHANGED <<year, attempt, result, fetched,
                   normVars, matchVars, entryVars, enrichVars, yearsVars,
                   scanVars, roleVars>>

\* Strategy 2 called whatever strategy 1 returned
TrySections_Always ==
    /\ pc = "sections"
    /\ LET r == ParseBySections(soup, year, CeremonyNumber(year))
       IN  /\ awards' = r
           /\ calls' = Append(calls, Called("section", r))
    /\ pc' = "lists"
    /\ UNCHANGED <<year, attempt, soup, result, fetched,
                   normVars, matchVars, entryVars, enrichVars, yearsVars,
                   scanVars, roleVars>>

\* Strategy 2: if not awards: awards = self._parse_by_sections(...)
TrySections ==
    /\ pc = "sections"
    /\ awards = <<>>
    /\ LET r == ParseBySections(soup, year, CeremonyNumber(year))
       IN  /\ awards' = r
           /\ calls' = Append(calls, Called("section", r))
    /\ pc' = "lists"
    /\ UNCHANGED <<year, attempt, soup, result, fetched,
                   normVars, matchVars, entryVars, enrichVars, yearsVars,
                   scanVars, roleVars>>

SkipSections ==
    /\ pc = "sections"
    /\ awards # <<>>
    /\ pc' = "lists"
    /\ UNCHANGED <<year, attempt, soup, awards, result, fetched, calls,
                   normVars, matchVars, entryVars, enrichVars, yearsVars,
                   scanVars, roleVars>>

\* Strategy 3: if not awards: awards = self._parse_lists(...)
TryLists ==
    /\ pc = "lists"
    /\ awards = <<>>
    /\ LET r == ParseLists(soup, year, CeremonyNumber(year))
       IN  /\ awards' = r
           /\ calls' = Append(calls, Called("list", r))
    /\ pc' = "return"
    /\ UNCHANGED <<year, attempt, soup, result, fetched,
                   normVars, matchVars, entryVars, enrichVars, yearsVars,
                   scanVars, roleVars>>

SkipLists ==
    /\ pc = "lists"
    /\ awards # <<>>
    /\ pc' = "return"
    /\ UNCHANGED <<year, attempt, soup, awards, result, fetched, calls,
                   normVars, matchVars, entryVars, enrichVars, yearsVars,
                   scanVars, roleVars>>

\* return awards
Return ==
    /\ pc = "return"
    /\ result' = awards
    /\ pc' = "done"
    /\ UNCHANGED <<year, attempt, soup, awards, fetched, calls,
                   normVars, matchVars, entryVars, enrichVars, yearsVars,
                   scanVars, roleVars>>

Next ==
    \/ FetchReturns
    \/ FetchRetries
    \/ FetchRaises
    \/ TryTables
    \/ TrySections
    \/ SkipSections
    \/ TryLists
    \/ SkipLists
    \/ Return

Spec == Init /\ [][Next]_vars

----------------------------------------------------------------------------
(* SpecEntry: one table row parsed by _parse_nominees_table, and its first  *)
(* cell's content parsed as a list item by _parse_list_items                *)

InitEntry ==
    /\ row \in EntryRows
    /\ category \in EntryCategories
    /\ rowWon = None
    /\ rowAwards = None
    /\ itemAwards = None
    /\ epc = "input"
    /\ NormIdle
    /\ MatchIdle
    /\ ScrapeIdle
    /\ EnrichIdle
    /\ YearsIdle
    /\ ScanIdle
    /\ RoleIdle

ParseAsRow ==
    /\ epc = "input"
    /\ rowWon' = IsWinnerRow(row)
    /\ rowAwards' = ParseNomineesTable(Table(TRUE, <<HeaderRow, row>>), category,
                                       EntryYear, CeremonyNumber(EntryYear))
    /\ epc' = "row"
    /\ UNCHANGED <<row, category, itemAwards, normVars, matchVars, scrapeVars, enrichVars,
                   yearsVars, scanVars, roleVars>>

ParseAsItem ==
    /\ epc = "row"
    /\ row.cells # <<>>
    /\ itemAwards' = ParseListItems(List(<<row.cells[1]>>), category,
                                    EntryYear, CeremonyNumber(EntryYear))
    /\ epc' = "item"
    /\ UNCHANGED <<row, category, rowWon, rowAwards, normVars, matchVars,
                   scrapeVars, enrichVars, yearsVars, scanVars, roleVars>>

NextEntry == ParseAsRow \/ ParseAsItem

SpecEntry == InitEntry /\ [][NextEntry]_vars

----------------------------------------------------------------------------
(* enrich_awards_with_movie_data *)

InitEnrich ==
    /\ awards_in \in AwardLists
    /\ movies \in MovieLists
    /\ awards0 = awards_in
    /\ movies0 = movies
    /\ movie_lookup = <<>>
    /\ enriched_awards = <<>>
    /\ xi = 0
    /\ xpc = "lookup"
    /\ NormIdle
    /\ MatchIdle
    /\ ScrapeIdle
    /\ EntryIdle
    /\ YearsIdle
    /\ ScanIdle
    /\ RoleIdle

\* movie_lookup = {...}; enriched_awards = []
CreateLookup ==
    /\ xpc = "lookup"
    /\ movie_lookup' = BuildLookup(movies)
    /\ enriched_awards' = <<>>
    /\ xi' = 1
    /\ xpc' = "loop"
    /\ UNCHANGED <<awards_in, movies, awards0, movies0,
                   normVars, matchVars, scrapeVars, entryVars, yearsVars,
                   scanVars, roleVars>>

\* one iteration that appends only an award it linked
EnrichAward_MatchedOnly ==
    /\ xpc = "loop"
    /\ xi <= Len(awards_in)
    /\ LET r == EnrichOne(awards_in[xi], movie_lookup)
       IN  /\ awards_in' = [awards_in EXCEPT ![xi] = r.award]
           /\ enriched_awards' =
                IF MatchIndex(awards_in[xi], movie_lookup) = 0
                THEN enriched_awards
                ELSE Append(enriched_awards, r.enriched)
    /\ xi' = xi + 1
    /\ UNCHANGED <<movies, movie_lookup, awards0, movies0, xpc,
                   normVars, matchVars, scrapeVars, entryVars, yearsVars,
                   scanVars, roleVars>>

\* for award in awards: ... enriched_awards.append(enriched)
EnrichAward ==
    /\ xpc = "loop"
    /\ xi <= Len(awards_in)
    /\ LET r == EnrichOne(awards_in[xi], movie_lookup)
       IN  /\ awards_in' = [awards_in EXCEPT ![xi] = r.award]
           /\ enriched_awards' = Append(enriched_awards, r.enriched)
    /\ xi' = xi + 1
    /\ UNCHANGED <<movies, movie_lookup, awards0, movies0, xpc,
                   normVars, matchVars, scrapeVars, entryVars, yearsVars,
                   scanVars, roleVars>>

\* return enriched_awards
ReturnEnriched ==
    /\ xpc = "loop"
    /\ xi > Len(awards_in)
    /\ xpc' = "done"
    /\ UNCHANGED <<awards_in, movies, movie_lookup, enriched_awards, xi,
                   awards0, movies0,
                   normVars, matchVars, scrapeVars, entryVars, yearsVars,
                   scanVars, roleVars>>

NextEnrich == CreateLookup \/ EnrichAward \/ ReturnEnriched

SpecEnrich == InitEnrich /\ [][NextEnrich]_vars

----------------------------------------------------------------------------
(* scrape_year on a page of one heading and one entry, the Awards saved,
   loaded and enriched *)

BoldFilmEntry == Entry("", "", TRUE, <<FilmLink>>, "")

SingleEntries == {BoldFilmEntry, WinEntry, NomEntry, CiteEntry}

SingleEntryBlocks ==
    {Table(TRUE, <<HeaderRow, Row("", "", <<e>>)>>) : e \in SingleEntries}
    \cup {List(<<e>>) : e \in SingleEntries}

SingleEntryPages == {<<h, b>> : h \in Headings, b \in SingleEntryBlocks}

FetchEntryPage ==
    /\ pc = "fetch"
    /\ \E page \in SingleEntryPages :
        /\ soup' = page
        /\ fetched' = page
    /\ attempt' = 0
    /\ awards' = <<>>
    /\ pc' = "tables"
    /\ UNCHANGED <<year, result, calls,
                   normVars, matchVars, entryVars, enrichVars, yearsVars,
                   scanVars, roleVars>>

\* save_awards_to_json, load_awards_from_json, load_movies_from_json
LoadSaved ==
    /\ pc = "done"
    /\ xpc = "idle"
    /\ awards_in' = [i \in 1..Len(result) |-> AwardToDict(result[i])]
    /\ awards0' = awards_in'
    /\ \E ms \in MovieLists :
        /\ movies' = ms
        /\ movies0' = ms
    /\ movie_lookup' = <<>>
    /\ enriched_awards' = <<>>
    /\ xi' = 0
    /\ xpc' = "lookup"
    /\ UNCHANGED <<normVars, matchVars, scrapeVars, entryVars, yearsVars,
                   scanVars, roleVars>>

NextEndToEnd ==
    \/ FetchEntryPage
    \/ TryTables
    \/ TrySections
    \/ SkipSections
    \/ TryLists
    \/ SkipLists
    \/ Return
    \/ LoadSaved
    \/ CreateLookup
    \/ EnrichAward
    \/ ReturnEnriched

SpecEndToEnd == Init /\ [][NextEndToEnd]_vars

----------------------------------------------------------------------------
(* scrape_multiple_years *)

MaxYears == 3

\* the ceremony years a run can cover
RangeYears == (EntryYear - MaxYears + 1)..EntryYear

\* what the fetch of one year's page comes to: a page, or an exception
YearPages ==
    { <<>>,
      <<Heading(2, TRUE, "Best Picture", "[edit]"),
        Table(TRUE, <<HeaderRow, WinRow, NomRow>>)>>,
      <<Heading(3, TRUE, "Best Director", "[edit]"),
        List(<<WinEntry, NomEntry>>)>> }

Fetches ==
    {[ok |-> TRUE, page |-> p] : p \in YearPages}
    \cup {[ok |-> FALSE, page |-> <<>>]}

InitYears ==
    /\ start_year \in RangeYears
    /\ end_year \in RangeYears
    /\ cur_year = start_year
    /\ all_awards = <<>>
    /\ seen = <<>>
    /\ ypc = "loop"
    /\ NormIdle
    /\ MatchIdle
    /\ ScrapeIdle
    /\ EntryIdle
    /\ EnrichIdle
    /\ ScanIdle
    /\ RoleIdle

\* what scrape_year returns: [] from its except clause when the fetch raised
ScrapeYearReturns(f, y) == IF f.ok THEN ScrapeYearOn(f.page, y) ELSE <<>>

\* one iteration that ends the run when the year yields nothing
ScrapeNextYear_StopOnEmpty ==
    /\ ypc = "loop"
    /\ cur_year <= end_year
    /\ \E f \in Fetches :
        LET r == ScrapeYearReturns(f, cur_year)
        IN  /\ all_awards' = all_awards \o r
            /\ seen' = Append(seen, [year |-> cur_year, fetch |-> f,
                                     returned |-> r])
            /\ cur_year' = IF r = <<>> THEN end_year + 1 ELSE cur_year + 1
    /\ UNCHANGED <<start_year, end_year, ypc,
                   normVars, matchVars, scrapeVars, entryVars, enrichVars,
                   scanVars, roleVars>>

\* for year in range(start_year, end_year + 1):
\*     awards = self.scrape_year(year); all_awards.extend(awards)
\* scrape_year raises nothing, so the except clause of the loop is not entered
ScrapeNextYear ==
    /\ ypc = "loop"
    /\ cur_year <= end_year
    /\ \E f \in Fetches :
        LET r == ScrapeYearReturns(f, cur_year)
        IN  /\ all_awards' = all_awards \o r
            /\ seen' = Append(seen, [year |-> cur_year, fetch |-> f,
                                     returned |-> r])
    /\ cur_year' = cur_year + 1
    /\ UNCHANGED <<start_year, end_year, ypc,
                   normVars, matchVars, scrapeVars, entryVars, enrichVars,
                   scanVars, roleVars>>

\* return all_awards
ReturnAll ==
    /\ ypc = "loop"
    /\ cur_year > end_year
    /\ ypc' = "done"
    /\ UNCHANGED <<start_year, end_year, cur_year, all_awards, seen,
                   normVars, matchVars, scrapeVars, entryVars, enrichVars,
                   scanVars, roleVars>>

NextYears == ScrapeNextYear \/ ReturnAll

SpecYears == InitYears /\ [][NextYears]_vars

----------------------------------------------------------------------------
(* scrape_movies and scrape_category *)

MaxTables == 2
MaxRowsScanned == 3

\* the tables scrape_movies skips
MOVIES_SKIPPED_FROM == 11
MOVIES_SKIPPED_TO == 12

ScanRows ==
    { ScanRow("1927/28 (1st)", <<<<Inline("ib", "Wings"), Inline("text", "[a]")>>>>),
      ScanRow(None, <<<<Inline("i", "The Racket")>>, <<Inline("text", "Caddo")>>>>),
      ScanRow("TBA", <<<<Inline("b", "Frank Borzage"), Inline("i", " 7th Heaven")>>>>),
      ScanRow("Year of Film Release", <<<<Inline("text", "Film")>>,
                                        <<Inline("text", "Director")>>>>),
      ScanRow("Films of 1929", <<<<Inline("text", "[2]")>>>>),
      ScanRow(None, <<>>) }

CategoryNames == {"Director"}

SkipTableSets == {{}, {1}}

InitScan ==
    /\ scraper \in {"movies", "category"}
    /\ category_name \in (IF scraper = "movies" THEN {""} ELSE CategoryNames)
    /\ skip_tables \in
        (IF scraper = "movies"
         THEN {MOVIES_SKIPPED_FROM..MOVIES_SKIPPED_TO} ELSE SkipTableSets)
    /\ table_index = 0
    /\ row_index = 0
    /\ current_year = None
    /\ data = <<>>
    /\ scanned = <<>>
    /\ kpc = "tables"
    /\ NormIdle
    /\ MatchIdle
    /\ ScrapeIdle
    /\ EntryIdle
    /\ EnrichIdle
    /\ YearsIdle
    /\ RoleIdle

\* if table_index in skip_tables: continue
SkipTable ==
    /\ kpc = "tables"
    /\ table_index < MaxTables
    /\ table_index \in skip_tables
    /\ table_index' = table_index + 1
    /\ UNCHANGED <<scraper, category_name, skip_tables, row_index,
                   current_year, data, scanned, kpc,
                   normVars, matchVars, scrapeVars, entryVars, enrichVars,
                   yearsVars, roleVars>>

\* rows = table.find_all("tr")
BeginTable ==
    /\ kpc = "tables"
    /\ table_index < MaxTables
    /\ table_index \notin skip_tables
    /\ row_index' = 0
    /\ kpc' = "rows"
    /\ UNCHANGED <<scraper, category_name, skip_tables, table_index,
                   current_year, data, scanned,
                   normVars, matchVars, scrapeVars, entryVars, enrichVars,
                   yearsVars, roleVars>>

\* what one pass of the loop over rows leaves
Scanned(r, step) ==
    /\ current_year' = step.current_year
    /\ data' = data \o step.records
    /\ scanned' = Append(scanned, [row |-> r,
                                   table |-> table_index,
                                   year_after |-> step.current_year,
                                   recorded |-> step.records # <<>>,
                                   at |-> Len(data) + 1])
    /\ row_index' = row_index + 1

ScanMovieRow ==
    /\ kpc = "rows"
    /\ scraper = "movies"
    /\ Len(scanned) < MaxRowsScanned
    /\ \E r \in ScanRows : Scanned(r, MovieRow(r, row_index, current_year))
    /\ UNCHANGED <<scraper, category_name, skip_tables, table_index, kpc,
                   normVars, matchVars, scrapeVars, entryVars, enrichVars,
                   yearsVars, roleVars>>

ScanCategoryRow ==
    /\ kpc = "rows"
    /\ scraper = "category"
    /\ Len(scanned) < MaxRowsScanned
    /\ \E r \in ScanRows :
        Scanned(r, CategoryRow(r, row_index, current_year, category_name))
    /\ UNCHANGED <<scraper, category_name, skip_tables, table_index, kpc,
                   normVars, matchVars, scrapeVars, entryVars, enrichVars,
                   yearsVars, roleVars>>

\* the table has no more rows
EndTable ==
    /\ kpc = "rows"
    /\ table_index' = table_index + 1
    /\ kpc' = "tables"
    /\ UNCHANGED <<scraper, category_name, skip_tables, row_index,
                   current_year, data, scanned,
                   normVars, matchVars, scrapeVars, entryVars, enrichVars,
                   yearsVars, roleVars>>

\* the page has no more tables: return data
ReturnData ==
    /\ kpc = "tables"
    /\ kpc' = "done"
    /\ UNCHANGED <<scraper, category_name, skip_tables, table_index,
                   row_index, current_year, data, scanned,
                   normVars, matchVars, scrapeVars, entryVars, enrichVars,
                   yearsVars, roleVars>>

NextScan ==
    \/ SkipTable
    \/ BeginTable
    \/ ScanMovieRow
    \/ ScanCategoryRow
    \/ EndTable
    \/ ReturnData

SpecScan == InitScan /\ [][NextScan]_vars

----------------------------------------------------------------------------
(* _get_person_role on its own *)

MaxKeywords == 2

RoleWords ==
    {"Director", "Actor", "Actress", "Supporting", "Screenplay", "Writer",
     "Cinematography", "Editing", "Score", "Song", "Picture"}

\* "Best" followed by the words of ws
RECURSIVE CategoryOf(_, _)
CategoryOf(ws, i) ==
    IF i > Len(ws) THEN "Best" ELSE CategoryOf(ws, i + 1) \o " " \o ws[Len(ws) + 1 - i]

RoleCategories == {CategoryOf(ws, 1) : ws \in SeqsUpTo(RoleWords, MaxKeywords)}

InitRole ==
    /\ role_category \in RoleCategories
    /\ person_role = None
    /\ rpc = "input"
    /\ NormIdle
    /\ MatchIdle
    /\ ScrapeIdle
    /\ EntryIdle
    /\ EnrichIdle
    /\ YearsIdle
    /\ ScanIdle

Role ==
    /\ rpc = "input"
    /\ person_role' = GetPersonRole(role_category)
    /\ rpc' = "done"
    /\ UNCHANGED <<role_category, normVars, matchVars, scrapeVars, entryVars,
                   enrichVars, yearsVars, scanVars>>

NextRole == Role

SpecRole == InitRole /\ [][NextRole]_vars

----------------------------------------------------------------------------
(* Properties of scrape_year (Spec) *)

StrategyOrder == <<"table", "section", "list">>

\* scrape_year returned through its return statement, not its except clause
Returned == pc = "done" /\ calls # <<>>

\* C1: the strategies are called in the order table, section, list; a
\* strategy is called only if every strategy called before it returned no
\* Award; and once scrape_year has returned, a non-empty list some strategy
\* returned is the result and was the last call, while an empty result
\* means that all three were called.
C1_FallbackOrder ==
    /\ Len(calls) <= Len(StrategyOrder)
    /\ \A i \in 1..Len(calls) :
        /\ calls[i].strategy = StrategyOrder[i]
        /\ \A j \in 1..(i - 1) : calls[j].returned = <<>>
        /\ calls[i].returned # <<>> => i = Len(calls)
    /\ Returned =>
        /\ result = calls[Len(calls)].returned
        /\ result = <<>> => Len(calls) = Len(StrategyOrder)

\* the table strategy found nothing, the section strategy did, and its list
\* was returned without the list strategy being called
C1_Witness ==
    /\ Returned
    /\ Len(calls) = 2
    /\ calls[1].returned = <<>>
    /\ calls[2].strategy = "section"
    /\ result # <<>>
    /\ result = calls[2].returned

\* whether the nearest heading before block i names a major category
UnderMajorHeading(page, i) ==
    LET h == PrevHeading(page, i)
    IN  h # 0 /\ IsMajorCategory(CleanText(HeadingText(page[h])))

\* the tables the table strategy parses: class wikitable, major heading
QualifyingTables(page) ==
    {i \in 1..Len(page) :
        page[i].kind = "table" /\ page[i].wikitable /\ UnderMajorHeading(page, i)}

\* the tables of any class under a major heading
TablesUnderMajor(page) ==
    {i \in 1..Len(page) : page[i].kind = "table" /\ UnderMajorHeading(page, i)}

\* the lists under a major heading: <<i, 0>> is the list that is block i,
\* <<i, k>> the k-th list nested in it
QualifyingLists(page) ==
    UNION {{<<i, k>> : k \in 0..Len(ListsIn(page[i].body))} :
              i \in {j \in 1..Len(page) :
                        page[j].kind = "list" /\ UnderMajorHeading(page, j)}}

FallbackToLists ==
    /\ calls[1].returned = <<>>
    /\ result = ParseLists(fetched, year, year - 1929 + 1)

\* C2 as stated: on a page with no wikitable under a major heading and one
\* list under a major heading, the table strategy returns nothing and
\* scrape_year returns what _parse_lists returns on the page as fetched.
C2_Original ==
    (/\ Returned
     /\ QualifyingTables(fetched) = {}
     /\ Cardinality(QualifyingLists(fetched)) = 1)
    => FallbackToLists

\* C2 as amended: the same, on a page with no table of any class under a
\* major heading.
C2_FallbackEqualsLists ==
    (/\ Returned
     /\ TablesUnderMajor(fetched) = {}
     /\ Cardinality(QualifyingLists(fetched)) = 1)
    => FallbackToLists

\* such a page, where the section strategy produced the result
C2_Witness ==
    /\ Returned
    /\ TablesUnderMajor(fetched) = {}
    /\ Cardinality(QualifyingLists(fetched)) = 1
    /\ Len(calls) = 2
    /\ result # <<>>
    /\ result = ParseLists(fetched, year, year - 1929 + 1)

\* C7: every Award scrape_year returns has a film title.
C7_EveryAwardHasTitle ==
    pc = "done" => \A i \in 1..Len(result) : result[i].movie_title # None

\* C8: every Award a strategy returned, and every Award of the result, has
\* ceremony_year = year and ceremony_number = year - 1929 + 1, which is 96
\* for 2024; so all Awards of the page carry one ceremony_number.
C8_CeremonyNumber ==
    LET Right(a) ==
            /\ a.ceremony_year = year
            /\ a.ceremony_number = year - 1929 + 1
            /\ year = 2024 => a.ceremony_number = 96
    IN  /\ \A c \in 1..Len(calls) :
            \A i \in 1..Len(calls[c].returned) : Right(calls[c].returned[i])
        /\ pc = "done" => \A i \in 1..Len(result) : Right(result[i])

\* the list strategy's Awards for the 2024 ceremony
C8_Witness ==
    /\ Returned
    /\ year = 2024
    /\ Len(calls) = 3
    /\ Len(result) >= 2
    /\ \A i \in 1..Len(result) : result[i].ceremony_number = 96

----------------------------------------------------------------------------
(* Properties of match_movie_to_award (SpecMatch) *)

DarkKnightPair ==
    /\ mpc = "done"
    /\ {movie_title, award_movie_title} = {TheDarkKnight, DarkKnightRises}

\* C3 as stated: "the dark knight" against "dark knight rises" is decided by
\* the Jaccard tier: no match at threshold 0.8, a match at threshold 0.5.
C3_Original ==
    DarkKnightPair =>
        /\ tier = "jaccard"
        /\ threshold = 8 => matched = FALSE
        /\ threshold = 5 => matched = TRUE

\* C3 as amended: the pair matches at threshold 0.8 and at threshold 0.5,
\* decided by the substring tier.
C3_DarkKnightMatches ==
    DarkKnightPair => matched = TRUE /\ tier = "substring"

C3_Witness ==
    /\ DarkKnightPair
    /\ movie_title = TheDarkKnight
    /\ threshold = 8
    /\ matched = TRUE

----------------------------------------------------------------------------
(* Properties of _normalize_title (SpecNormalize) *)

\* C4: normalizing a normalized title changes nothing.
C4_Idempotent == npc = "twice" => renormalized = normalized

----------------------------------------------------------------------------
(* Properties of the winner detector (SpecEntry) *)

RowParsed == epc \in {"row", "item"}

Highlighted(style) ==
    IsSubstring("background", Lower(style)) /\ AnyIn(WINNER_COLORS, Lower(style))

\* (a) bold or strong markup in the row
SignalBold(r) == \E i \in 1..Len(r.cells) : r.cells[i].bold

\* (b) a highlighting inline style on the row or on its first cell
SignalStyle(r) ==
    \/ Highlighted(r.style)
    \/ r.cells # <<>> /\ Highlighted(r.cells[1].style)

\* a highlighting inline style anywhere in the row
SignalStyleAnywhere(r) ==
    \/ Highlighted(r.style)
    \/ \E i \in 1..Len(r.cells) : Highlighted(r.cells[i].style)

\* (c) a trophy glyph or the word "winner" in the visible text
SignalText(r) ==
    \/ IsSubstring(Trophy, RowText(r.cells))
    \/ IsSubstring("winner", Lower(RowText(r.cells)))

\* (d) a class containing "winner" on the first cell
SignalCellClass(r) ==
    r.cells # <<>> /\ IsSubstring("winner", Lower(r.cells[1].cls))

\* a class containing "winner" on the row itself
SignalRowClass(r) == IsSubstring("winner", Lower(r.cls))

\* a class containing "winner" anywhere in the row
SignalClassAnywhere(r) ==
    \/ SignalRowClass(r)
    \/ \E i \in 1..Len(r.cells) : IsSubstring("winner", Lower(r.cells[i].cls))

NoSignal(r) ==
    /\ ~SignalBold(r)
    /\ ~SignalStyleAnywhere(r)
    /\ ~SignalText(r)
    /\ ~SignalClassAnywhere(r)

NotWon == rowWon = FALSE /\ \A i \in 1..Len(rowAwards) : ~rowAwards[i].won

Won == rowWon = TRUE /\ \A i \in 1..Len(rowAwards) : rowAwards[i].won

----------------------------------------------------------------------------
(* Properties of enrich_awards_with_movie_data (SpecEnrich) *)

\* the keys of a dict other than the two link fields
OtherKeys(d) == DOMAIN d \ LINK_KEYS

\* whether dict e has the keys and values of dict a, the link fields aside
DerivedFrom(e, a) ==
    /\ OtherKeys(e) = OtherKeys(a)
    /\ \A k \in OtherKeys(a) : e[k] = a[k]

\* whether the film of award a was found in the catalog
Linked(a) == MatchIndex(a, BuildLookup(movies0)) # 0

\* C9: the output has one record per input award, in the input order: after
\* k iterations it holds k records, the i-th derived from the i-th input
\* award, and the returned list is as long as the input list.
C9_OnePerAwardInOrder ==
    /\ xpc = "loop" => Len(enriched_awards) = xi - 1
    /\ xpc = "done" => Len(enriched_awards) = Len(awards0)
    /\ xpc \in {"loop", "done"} =>
        \A i \in 1..Len(enriched_awards) :
            /\ i <= Len(awards0)
            /\ DerivedFrom(enriched_awards[i], awards0[i])

\* two different awards, the first not in the catalog and the second in it,
\* against a catalog of two films with one normalized title
C9_Witness ==
    /\ xpc = "done"
    /\ Len(awards0) = 2
    /\ Len(movies0) = 2
    /\ Len(movie_lookup) = 1
    /\ ~Linked(awards0[1])
    /\ Linked(awards0[2])
    /\ Len(enriched_awards) = 2
    /\ enriched_awards[2].movie_title = awards0[2].movie_title
    /\ enriched_awards[1] # enriched_awards[2]

\* C10: an enriched record has the keys of its input award and at most the
\* two link fields more, with the input's value under every key that is no
\* link field; and the award dicts and the movie dicts passed in are, at
\* every step, as they were passed in.
C10_OnlyLinkFieldsChange ==
    /\ awards_in = awards0
    /\ movies = movies0
    /\ \A i \in 1..Len(enriched_awards) :
        /\ DOMAIN awards0[i] \subseteq DOMAIN enriched_awards[i]
        /\ DOMAIN enriched_awards[i] \subseteq DOMAIN awards0[i] \cup LINK_KEYS
        /\ \A k \in DOMAIN awards0[i] \ LINK_KEYS :
            enriched_awards[i][k] = awards0[i][k]

\* an award without link fields that got them from the catalog, the input
\* dict still without them
C10_Witness ==
    /\ xpc = "done"
    /\ Len(awards0) >= 1
    /\ Linked(awards0[1])
    /\ DOMAIN awards0[1] \cap LINK_KEYS = {}
    /\ LINK_KEYS \subseteq DOMAIN enriched_awards[1]
    /\ enriched_awards[1]["movie_tmdb_id"] # None
    /\ awards_in[1] = awards0[1]
    /\ movies0 # <<>>
    /\ movies = movies0

\* the films of the lookup whose key is the award's normalized title
DirectHits(a) ==
    {j \in 1..Len(movie_lookup) :
        movie_lookup[j].key = NormalizeTitle(a.movie_title)}

\* the films of the lookup the matcher accepts for the award's raw title
FuzzyHits(a) ==
    {j \in 1..Len(movie_lookup) :
        MatchMovieToAward(movie_lookup[j].movie.title, a.movie_title,
                          DefaultThreshold)}

\* whether dict e has its two link fields from film m
LinkedTo(e, m) ==
    /\ LINK_KEYS \subseteq DOMAIN e
    /\ e["movie_tmdb_id"] = Get(m, "tmdb_id")
    /\ e["movie_imdb_id"] = Get(m, "imdb_id")

\* whether dict e has the link fields of dict a, present or absent alike
LinksAsIn(e, a) ==
    /\ DOMAIN e \cap LINK_KEYS = DOMAIN a \cap LINK_KEYS
    /\ \A k \in DOMAIN a \cap LINK_KEYS : e[k] = a[k]

HasTitle(a) ==
    /\ "movie_title" \in DOMAIN a
    /\ a.movie_title # None
    /\ a.movie_title # ""

\* C11: an award with a non-empty movie_title whose normalized title is a
\* key of the lookup gets its link fields from the film under that key; if
\* it is no key, from the first film in the lookup's order that the matcher
\* accepts; and an award no film matches, or without movie_title, keeps the
\* link fields of the input.
C11_DirectThenFirstFuzzy ==
    \A i \in 1..Len(enriched_awards) :
        LET a == awards0[i]
            e == enriched_awards[i]
        IN  IF ~HasTitle(a) THEN LinksAsIn(e, a)
            ELSE IF DirectHits(a) # {}
            THEN \A j \in DirectHits(a) : LinkedTo(e, movie_lookup[j].movie)
            ELSE IF FuzzyHits(a) # {}
            THEN \A j \in FuzzyHits(a) :
                    (\A k \in FuzzyHits(a) : j <= k)
                        => LinkedTo(e, movie_lookup[j].movie)
            ELSE LinksAsIn(e, a)

\* a first award found under its key although an earlier film of the lookup
\* matches it too, and a second award found by the scan, which two films
\* with different identifiers match
C11_Witness ==
    /\ xpc = "done"
    /\ Len(awards0) = 2
    /\ HasTitle(awards0[1])
    /\ DirectHits(awards0[1]) = {2}
    /\ 1 \in FuzzyHits(awards0[1])
    /\ enriched_awards[1]["movie_tmdb_id"] = movie_lookup[2].movie.tmdb_id
    /\ enriched_awards[1]["movie_tmdb_id"] # movie_lookup[1].movie.tmdb_id
    /\ HasTitle(awards0[2])
    /\ DirectHits(awards0[2]) = {}
    /\ FuzzyHits(awards0[2]) = {1, 2}
    /\ enriched_awards[2]["movie_tmdb_id"] = movie_lookup[1].movie.tmdb_id

\* the normalized titles of the catalog, by position
CatalogKeys == [m \in 1..Len(movies0) |-> NormalizeTitle(movies0[m].title)]

\* the last film of the catalog whose normalized title, in keys, is n
LastFilmTitled(keys, n) ==
    movies0[CHOOSE m \in DOMAIN keys :
                keys[m] = n /\ \A k \in DOMAIN keys : keys[k] = n => k <= m]

\* C12: the lookup has one entry for every normalized title of the catalog,
\* holding the last film of the catalog with that normalized title; and an
\* award whose normalized title is a key of the lookup gets the identifiers
\* of that last film.
C12_LastWriteWins ==
    xpc \in {"loop", "done"} =>
        LET keys == CatalogKeys
        IN  /\ {movie_lookup[j].key : j \in 1..Len(movie_lookup)}
                = {keys[m] : m \in DOMAIN keys}
            /\ \A j, k \in 1..Len(movie_lookup) :
                movie_lookup[j].key = movie_lookup[k].key => j = k
            /\ \A j \in 1..Len(movie_lookup) :
                movie_lookup[j].movie = LastFilmTitled(keys, movie_lookup[j].key)
            /\ \A i \in 1..Len(enriched_awards) :
                HasTitle(awards0[i]) =>
                    LET n == NormalizeTitle(awards0[i].movie_title)
                    IN  (\E m \in DOMAIN keys : keys[m] = n)
                        => LinkedTo(enriched_awards[i], LastFilmTitled(keys, n))

\* two films with one normalized title and different identifiers, and an
\* award with that title linked to the second
C12_Witness ==
    /\ xpc = "done"
    /\ Len(movies0) = 2
    /\ movies0[1].title # movies0[2].title
    /\ NormalizeTitle(movies0[1].title) = NormalizeTitle(movies0[2].title)
    /\ movies0[1].tmdb_id # movies0[2].tmdb_id
    /\ Len(awards0) >= 1
    /\ HasTitle(awards0[1])
    /\ NormalizeTitle(awards0[1].movie_title) = NormalizeTitle(movies0[2].title)
    /\ enriched_awards[1]["movie_tmdb_id"] = movies0[2].tmdb_id
    /\ movies0[2].tmdb_id = "872585"

----------------------------------------------------------------------------
(* Properties of the pipeline from page to enriched Award (SpecEndToEnd) *)

\* a heading "Best Picture" followed by one entry whose only link is
\* "Oppenheimer", in bold
OppenheimerPage ==
    /\ fetched \in SingleEntryPages
    /\ fetched[1].name = "Best Picture"
    /\ LET b == fetched[2]
           e == IF b.kind = "table" THEN b.body[2].cells[1] ELSE b.body[1]
       IN  /\ e.bold
           /\ Len(e.links) = 1
           /\ e.links[1].text = "Oppenheimer"

\* a catalog of one film, "Oppenheimer" with identifier 872585
OppenheimerCatalog ==
    /\ Len(movies0) = 1
    /\ movies0[1].title = "Oppenheimer"
    /\ movies0[1].tmdb_id = "872585"

\* C13: a heading "Best Picture" with one entry whose only link is
\* "Oppenheimer" in bold yields exactly one Award, of category "Best
\* Picture", movie_title "Oppenheimer", won and nominated; and enriched
\* against a catalog of one film "Oppenheimer" with identifier 872585, the
\* saved Award comes back the same but for movie_tmdb_id = 872585 and the
\* film's movie_imdb_id.
C13_EndToEnd ==
    /\ (pc = "done" /\ OppenheimerPage) =>
        /\ Len(result) = 1
        /\ result[1].category = "Best Picture"
        /\ result[1].movie_title = "Oppenheimer"
        /\ result[1].won = TRUE
        /\ result[1].nominated = TRUE
    /\ (pc = "done" /\ OppenheimerPage /\ xpc = "done" /\ OppenheimerCatalog) =>
        /\ Len(enriched_awards) = 1
        /\ DOMAIN enriched_awards[1] = DOMAIN AwardToDict(result[1])
        /\ \A k \in DOMAIN enriched_awards[1] \ LINK_KEYS :
            enriched_awards[1][k] = AwardToDict(result[1])[k]
        /\ enriched_awards[1]["category"] = "Best Picture"
        /\ enriched_awards[1]["movie_title"] = "Oppenheimer"
        /\ enriched_awards[1]["won"] = "True"
        /\ enriched_awards[1]["nominated"] = "True"
        /\ enriched_awards[1]["movie_tmdb_id"] = "872585"
        /\ enriched_awards[1]["movie_imdb_id"] = Get(movies0[1], "imdb_id")

\* the scenario run to its end, the entry being a table row
C13_Witness ==
    /\ pc = "done"
    /\ OppenheimerPage
    /\ fetched[2].kind = "table"
    /\ year = 2024
    /\ xpc = "done"
    /\ OppenheimerCatalog
    /\ Len(enriched_awards) = 1
    /\ enriched_awards[1]["movie_tmdb_id"] = "872585"
    /\ enriched_awards[1]["ceremony_number"] = "96"

----------------------------------------------------------------------------
(* scrape_year's failures (Spec) *)

\* a page with no table, no heading naming a major category, and so no
\* list under one
NothingToFind(page) ==
    \A i \in 1..Len(page) :
        /\ page[i].kind # "table"
        /\ page[i].kind = "heading"
            => ~IsMajorCategory(CleanText(HeadingText(page[i])))

\* C15: scrape_year ends only by returning a list; it returns the empty
\* list when the fetch raised, when all three strategies returned nothing,
\* and so on every page with no table and no heading of a major category.
C15_NeverRaises ==
    /\ pc \in {"fetch", "tables", "sections", "lists", "return", "done"}
    /\ pc = "done" =>
        /\ Len(result) >= 0
        /\ calls = <<>> => result = <<>>
        /\ (/\ Len(calls) = 3
            /\ \A i \in 1..3 : calls[i].returned = <<>>) => result = <<>>
        /\ (calls # <<>> /\ NothingToFind(fetched)) =>
            /\ Len(calls) = 3
            /\ result = <<>>

\* the fetch failed on its last attempt and scrape_year returned []
C15_Witness ==
    /\ pc = "done"
    /\ calls = <<>>
    /\ fetched = None
    /\ result = <<>>

----------------------------------------------------------------------------
(* Properties of scrape_multiple_years (SpecYears) *)

\* the Awards of the years start_year .. y, each year's being what
\* scrape_year returns on that year's own fetch, in ascending order
RECURSIVE AwardsUpTo(_)
AwardsUpTo(y) ==
    IF y < start_year THEN <<>>
    ELSE LET s == seen[y - start_year + 1]
         IN  AwardsUpTo(y - 1)
                \o (IF s.fetch.ok THEN ScrapeYearOn(s.fetch.page, y) ELSE <<>>)

\* C14: every year of start_year .. end_year is processed, in ascending
\* order, whatever the other years came to; a year whose fetch failed
\* contributes no Award; and the result is the concatenation, in ascending
\* year order, of what scrape_year returns for each year on its own.
C14_FailedYearSkipped ==
    /\ \A k \in 1..Len(seen) :
        /\ seen[k].year = start_year + k - 1
        /\ seen[k].year <= end_year
        /\ ~seen[k].fetch.ok => seen[k].returned = <<>>
    /\ ypc \in {"loop", "done"} =>
        /\ cur_year = start_year + Len(seen)
        /\ all_awards = AwardsUpTo(cur_year - 1)
    /\ ypc = "done" =>
        /\ Len(seen) = (IF end_year >= start_year
                        THEN end_year - start_year + 1 ELSE 0)
        /\ all_awards = AwardsUpTo(end_year)

\* three years, the second one failing, the first and the third with Awards
C14_Witness ==
    /\ ypc = "done"
    /\ Len(seen) = 3
    /\ seen[1].returned # <<>>
    /\ ~seen[2].fetch.ok
    /\ seen[3].returned # <<>>
    /\ all_awards = seen[1].returned \o seen[3].returned
    /\ all_awards[1].ceremony_year = start_year
    /\ all_awards[Len(all_awards)].ceremony_year = end_year

----------------------------------------------------------------------------
(* match_movie_to_award against its three tiers (SpecMatch) *)

\* the whitespace-separated tokens of s: its maximal runs without a space
Tokens(s) ==
    LET Run(i, j) ==
            /\ i <= j
            /\ \A k \in i..j : ~IsSpace(Ch(s, k))
            /\ i = 1 \/ IsSpace(Ch(s, i - 1))
            /\ j = Len(s) \/ IsSpace(Ch(s, j + 1))
    IN  {SubSeq(s, p[1], p[2]) :
            p \in {q \in (1..Len(s)) \X (1..Len(s)) : Run(q[1], q[2])}}

\* C16: the matcher returns true exactly if the normalized titles are
\* equal, or one is a substring of the other, or the word sets' intersection
\* over their union, taken as 0 for an empty union, is at least the
\* threshold; and the first two tiers decide whatever the threshold is.
C16_ThreeTiers ==
    mpc = "done" =>
        LET na == NormalizeTitle(movie_title)
            nb == NormalizeTitle(award_movie_title)
            wa == Tokens(na)
            wb == Tokens(nb)
            early == \/ na = nb
                     \/ IsSubstring(na, nb)
                     \/ IsSubstring(nb, na)
            similar ==
                IF wa \cup wb = {} THEN 0 >= threshold
                ELSE 10 * Cardinality(wa \cap wb)
                        >= threshold * Cardinality(wa \cup wb)
        IN  /\ matched = (early \/ similar)
            /\ early => matched = TRUE
            /\ early <=> tier \in {"exact", "substring"}

\* two titles sharing two words of four, neither inside the other, matched
\* at threshold 0.5 by the third tier
C16_Witness ==
    /\ mpc = "done"
    /\ movie_title = StarWars
    /\ award_movie_title = WarsStarTrek
    /\ threshold = 5
    /\ tier = "jaccard"
    /\ matched = TRUE

----------------------------------------------------------------------------
(* Properties of scrape_movies and scrape_category (SpecScan) *)

\* whether the header cell of the k-th row scanned has a four-digit token
TokenRow(k) ==
    LET th == scanned[k].row.th
    IN  th # None /\ \E i \in 1..Len(th) :
            /\ i + 3 <= Len(th)
            /\ \A j \in 0..3 : Ch(th, i + j) \in DigitChars

\* the year carried after the k-th row scanned
YearAfter(k) == IF k = 0 THEN None ELSE scanned[k].year_after

\* the last row with a year token among the first k rows scanned, 0 if none
LastTokenRow(k) ==
    LET S == {j \in 1..k : TokenRow(j)}
    IN  IF S = {} THEN 0 ELSE CHOOSE j \in S : \A i \in S : i <= j

\* C17: a row whose header cell has no four-digit token leaves the carried
\* year as the row before left it; so the year carried after a row is the
\* one set by the last row with a token up to it, None if there was none;
\* and a row that is recorded is recorded with that year.
C17_YearCarriedForward ==
    /\ \A k \in 1..Len(scanned) :
        /\ ~TokenRow(k) => YearAfter(k) = YearAfter(k - 1)
        /\ YearAfter(k) = YearAfter(LastTokenRow(k))
        /\ LastTokenRow(k) = 0 => YearAfter(k) = None
        /\ scanned[k].recorded =>
            /\ scanned[k].at <= Len(data)
            /\ data[scanned[k].at].Year = YearAfter(LastTokenRow(k))
    /\ kpc \in {"tables", "rows", "done"} =>
        /\ current_year = YearAfter(Len(scanned))
        /\ Len(data) = Cardinality({k \in 1..Len(scanned) : scanned[k].recorded})

\* a row with a year, then two rows without a year token, the second with
\* a header cell, in another table, all three recorded with the first's year
C17_Witness ==
    /\ kpc = "done"
    /\ Len(scanned) = 3
    /\ TokenRow(1)
    /\ scanned[2].row.th = None
    /\ scanned[3].row.th = "TBA"
    /\ table_index = 2
    /\ Len(data) = 3
    /\ data[1].Year = "1927/28"
    /\ data[2].Year = "1927/28"
    /\ data[3].Year = "1927/28"

----------------------------------------------------------------------------
(* Properties of the Awards the strategies emit (Spec) *)

\* C18: every Award a strategy returned, and every Award of the result, is
\* a nomination, the winners among them too.
C18_AlwaysNominated ==
    /\ \A c \in 1..Len(calls) :
        \A i \in 1..Len(calls[c].returned) :
            /\ calls[c].returned[i].nominated = TRUE
            /\ calls[c].returned[i].won => calls[c].returned[i].nominated
    /\ pc = "done" =>
        \A i \in 1..Len(result) : result[i].nominated = TRUE

\* a winner and a nominee that did not win, both nominated
C18_Witness ==
    /\ Returned
    /\ Len(result) >= 2
    /\ result[1].won /\ result[1].nominated
    /\ ~result[2].won /\ result[2].nominated

----------------------------------------------------------------------------
(* Properties of the link roles (SpecEntry) *)

\* the links of the first cell with a target that is neither empty nor a
\* fragment
TargetLinks ==
    SelectSeq(row.cells[1].links,
              LAMBDA l : l.href # None /\ l.href # "" /\ ~StartsWith(l.href, "#"))

\* those of them that, citation marks aside, have a text
TextLinks ==
    SelectSeq(row.cells[1].links,
              LAMBDA l : /\ l.href # None
                         /\ ~StartsWith(l.href, "#")
                         /\ CleanText(l.text) # "")

\* whether Award a has the first link of qs as its film and, in a category
\* about a person, the second as its person
RolesFrom(a, qs) ==
    /\ a.movie_title = (IF Len(qs) >= 1 THEN CleanText(qs[1].text) ELSE None)
    /\ a.person_name = (IF Len(qs) >= 2 /\ IsPersonCategory(category)
                        THEN CleanText(qs[2].text) ELSE None)

\* C19 as stated: the film is the first link with a non-empty target that
\* is no fragment, the person the next such link in a category about a
\* person and unset otherwise.
C19_Original ==
    (RowParsed /\ rowAwards # <<>>) =>
        LET qs == TargetLinks
        IN  /\ RolesFrom(rowAwards[1], qs)
            /\ (epc = "item" /\ itemAwards # <<>>)
                => RolesFrom(itemAwards[1], qs)

\* C19 as amended: the same, among the links that also have a non-empty
\* text once citation marks are removed.
C19_LinkRoles ==
    (RowParsed /\ rowAwards # <<>>) =>
        LET qs == TextLinks
        IN  /\ RolesFrom(rowAwards[1], qs)
            /\ (epc = "item" /\ itemAwards # <<>>)
                => RolesFrom(itemAwards[1], qs)

\* a film link and a person link under "Best Director", as a row and as an
\* item
C19_Witness ==
    /\ epc = "item"
    /\ category = "Best Director"
    /\ row.cells[1].links = <<FilmLink, PersonLink>>
    /\ Len(rowAwards) = 1
    /\ rowAwards[1].movie_title = "Oppenheimer"
    /\ rowAwards[1].person_name = "Christopher Nolan"
    /\ Len(itemAwards) = 1
    /\ itemAwards[1].person_name = "Christopher Nolan"

----------------------------------------------------------------------------
(* Properties of _get_person_role (SpecRole) *)

\* whether the category, in lower case, contains keyword k
Mentions(k) == IsSubstring(k, Lower(role_category))

\* C20: the role is decided by the first check that matches, in the order
\* director; actor or actress, "Supporting Actor" with "supporting" and
\* "Lead Actor" without; screenplay or writer; cinematography; editing;
\* score or song; and is "Unknown" if none matches, whatever later keyword
\* the category contains too.
C20_RolePriority ==
    rpc = "done" =>
        LET director == Mentions("director")
            acting == Mentions("actor") \/ Mentions("actress")
            writing == Mentions("screenplay") \/ Mentions("writer")
            camera == Mentions("cinematography")
            editing == Mentions("editing")
            music == Mentions("score") \/ Mentions("song")
        IN  /\ director => person_role = "Director"
            /\ (~director /\ acting /\ Mentions("supporting"))
                => person_role = "Supporting Actor"
            /\ (~director /\ acting /\ ~Mentions("supporting"))
                => person_role = "Lead Actor"
            /\ (~director /\ ~acting /\ writing) => person_role = "Writer"
            /\ (~director /\ ~acting /\ ~writing /\ camera)
                => person_role = "Cinematographer"
            /\ (~director /\ ~acting /\ ~writing /\ ~camera /\ editing)
                => person_role = "Editor"
            /\ (~director /\ ~acting /\ ~writing /\ ~camera /\ ~editing /\ music)
                => person_role = "Composer"
            /\ (~director /\ ~acting /\ ~writing /\ ~camera /\ ~editing /\ ~music)
                => person_role = "Unknown"

\* a category naming an actor before a director: the director check, which
\* comes first, decides
C20_Witness ==
    /\ rpc = "done"
    /\ role_category = "Best Actor Director"
    /\ person_role = "Director"

----------------------------------------------------------------------------
(* Properties of the section strategy (Spec) *)

\* the headings the section strategy scans from: <h2> or <h3> with a
\* headline span that names a major category
SectionHeadings(page) ==
    {i \in 1..Len(page) :
        /\ page[i].kind = "heading"
        /\ page[i].level \in {2, 3}
        /\ page[i].headline
        /\ IsMajorCategory(CleanText(page[i].name))}

\* the first table or list after heading i, or 0 when there is none or when
\* a heading of a level in ends lies between the two
SectionBlock(page, i, ends) ==
    LET blocks == {j \in (i + 1)..Len(page) : page[j].kind \in {"table", "list"}}
    IN  IF blocks = {} THEN 0
        ELSE LET first == CHOOSE j \in blocks : \A k \in blocks : j <= k
             IN  IF \E k \in (i + 1)..(first - 1) :
                        page[k].kind = "heading" /\ page[k].level \in ends
                 THEN 0
                 ELSE first

\* the Awards of block j under the category of heading i
ExtractedFor(page, i, j) ==
    LET cat == CleanText(page[i].name)
    IN  IF j = 0 THEN <<>>
        ELSE IF page[j].kind = "table"
        THEN ParseNomineesTable(page[j], cat, year, year - 1929 + 1)
        ELSE ParseListItems(page[j], cat, year, year - 1929 + 1)

\* the Awards of every section heading from block i on, in page order; a
\* scan ends at a heading of equal or higher level when by_level holds, and
\* at any heading of level 2 to 4 otherwise
RECURSIVE SectionAwards(_, _, _)
SectionAwards(page, i, by_level) ==
    IF i > Len(page) THEN <<>>
    ELSE LET ends == IF by_level THEN 1..page[i].level ELSE 2..4
             here == IF i \in SectionHeadings(page)
                     THEN ExtractedFor(page, i, SectionBlock(page, i, ends))
                     ELSE <<>>
         IN  here \o SectionAwards(page, i + 1, by_level)

SectionCalled == Len(calls) >= 2 /\ calls[2].strategy = "section"

\* a section heading, a heading of lower level, then a table or list
SubHeadingBetween(page) ==
    /\ Len(page) = 3
    /\ 1 \in SectionHeadings(page)
    /\ page[2].kind = "heading"
    /\ page[2].level > page[1].level
    /\ page[3].kind \in {"table", "list"}

\* C21 as stated: the section strategy returns, for every section heading in
\* page order, the Awards of the first table or list after it, the scan
\* ending only at a heading of equal or higher level.
C21_Original ==
    SectionCalled => calls[2].returned = SectionAwards(soup, 1, TRUE)

\* C21 as amended: the scan ends at the next heading of level 2 to 4,
\* whatever its level, so a sub-heading between a heading and its table or
\* list ends it and that block is not extracted for the heading.
C21_ScanEndsAtAnyHeading ==
    SectionCalled => calls[2].returned = SectionAwards(soup, 1, FALSE)

\* a sub-heading between the heading and a list with entries: the section
\* strategy returns nothing
C21_Witness ==
    /\ SectionCalled
    /\ SubHeadingBetween(soup)
    /\ ExtractedFor(soup, 1, 3) # <<>>
    /\ calls[2].returned = <<>>

----------------------------------------------------------------------------
(* Properties of the winner test across strategies (SpecEntry) *)

\* the row holds one cell and carries no attribute of its own, so the row
\* and the list item made of that cell have the same content
SameContent == Len(row.cells) = 1 /\ row.style = "" /\ row.cls = ""

\* C22: an entry parsed as a table row and the same entry parsed as a list
\* item get the same won value.
C22_SameWinner ==
    (/\ epc = "item"
     /\ SameContent
     /\ Len(rowAwards) = 1
     /\ Len(itemAwards) = 1)
    => rowAwards[1].won = itemAwards[1].won

----------------------------------------------------------------------------
(* Properties of the document tree (Spec) *)

\* C23: once a strategy has run, the tree is still the tree that was
\* fetched, so the next strategy reads the page as fetched.
C23_TreeUnchanged == calls # <<>> => soup = fetched

----------------------------------------------------------------------------
(* Properties of _fetch_page within scrape_year (Spec) *)

\* attempt counts the failed attempts so far, so the attempt being made is
\* number attempt + 1
C24_Step ==
    /\ attempt + 1 <= MAX_RETRIES
    /\ attempt' + 1 <= MAX_RETRIES
    /\ pc = "fetch" =>
        \/ /\ pc' = "tables"
           /\ soup' \in Pages
           /\ fetched' = soup'
           /\ result' = result
        \/ /\ attempt + 1 < MAX_RETRIES
           /\ attempt' = attempt + 1
           /\ pc' = "fetch"
           /\ result' = result
        \/ /\ attempt + 1 = MAX_RETRIES
           /\ pc' = "done"
           /\ result' = <<>>
           /\ calls' = <<>>
    /\ pc # "fetch" => (pc' # "fetch" /\ fetched' = fetched)

\* C24: _fetch_page makes at most MAX_RETRIES attempts; an attempt either
\* succeeds, and the page goes to the strategies with no further attempt,
\* or fails and is followed by another attempt if it was not the last, or
\* fails as the last one, and then scrape_year returns [] without having
\* called a strategy.
C24_BoundedRetries == [][C24_Step]_vars

\* two attempts have failed and were retried, the last one is being made
C24_Witness ==
    /\ pc = "fetch"
    /\ attempt + 1 = MAX_RETRIES
    /\ attempt >= 1

----------------------------------------------------------------------------
(* Properties of the table strategy (Spec) *)

\* the Awards of the rows k, k + 1, ... of table i under its heading's name
RECURSIVE RowsAwards(_, _, _)
RowsAwards(page, i, k) ==
    IF k > Len(page[i].body) THEN <<>>
    ELSE ParseRow(page[i].body[k], CleanText(page[PrevHeading(page, i)].name),
                  year, year - 1929 + 1)
         \o RowsAwards(page, i, k + 1)

\* the Awards of the rows after the first of every wikitable under a major
\* heading, from block i on, in page order
RECURSIVE BodyRowAwards(_, _)
BodyRowAwards(page, i) ==
    IF i > Len(page) THEN <<>>
    ELSE (IF i \in QualifyingTables(page) THEN RowsAwards(page, i, 2) ELSE <<>>)
         \o BodyRowAwards(page, i + 1)

\* the rows after the first of the wikitables under a major heading
BodyRowCount(page) ==
    Cardinality(UNION {{<<i, k>> : k \in 2..Len(page[i].body)} :
                          i \in QualifyingTables(page)})

\* C25: the table strategy returns, in page order, the Awards of the rows
\* after the first of the wikitables whose nearest preceding heading of
\* level 2 to 4 names a major category, and nothing else: at most one Award
\* per such row, none from a first row, none from a table that is no
\* wikitable, has no heading before it or a heading of another kind.
C25_BodyRowsOfMajorTables ==
    calls # <<>> =>
        /\ calls[1].strategy = "table"
        /\ calls[1].returned = BodyRowAwards(fetched, 1)
        /\ Len(calls[1].returned) <= BodyRowCount(fetched)
        /\ QualifyingTables(fetched) = {} => calls[1].returned = <<>>

\* a wikitable with no heading before it, then a major heading and a
\* wikitable whose only row is a winner's: no Award from either
C25_Witness ==
    /\ calls # <<>>
    /\ Len(fetched) = 3
    /\ fetched[1].kind = "table" /\ fetched[1].wikitable
    /\ Len(fetched[1].body) >= 2
    /\ QualifyingTables(fetched) = {3}
    /\ fetched[3].body = <<WinRow>>
    /\ calls[1].returned = <<>>

----------------------------------------------------------------------------
(* Properties of the Awards' person fields (SpecEntry) *)

PERSON_KEYWORDS == {"actor", "actress", "director", "writer", "screenplay"}

PersonCentric(cat) == \E k \in PERSON_KEYWORDS : IsSubstring(k, Lower(cat))

PersonFieldsAgree(a) ==
    /\ a.person_role # None <=> a.person_name # None
    /\ a.person_name # None =>
        /\ PersonCentric(a.category)
        /\ a.movie_title # None

\* C26: in every Award parsed from a table row or from a list item,
\* person_role is set exactly when person_name is, and a person_name is set
\* only in a person category and only together with a movie_title.
C26_PersonFields ==
    /\ epc \in {"row", "item"} =>
        \A i \in 1..Len(rowAwards) : PersonFieldsAgree(rowAwards[i])
    /\ epc = "item" =>
        \A i \in 1..Len(itemAwards) : PersonFieldsAgree(itemAwards[i])

\* a director's row whose first link is the person's and second the film's:
\* both are set, in the order of the links, with the role
C26_Witness ==
    /\ epc = "item"
    /\ category = "Best Director"
    /\ row.cells # <<>>
    /\ row.cells[1].links = <<PersonLink, FilmLink>>
    /\ Len(rowAwards) = 1
    /\ rowAwards[1].person_name = "Oppenheimer"
    /\ rowAwards[1].person_role = "Director"
    /\ rowAwards[1].movie_title = "Christopher Nolan"
    /\ Len(itemAwards) = 1
    /\ PersonFieldsAgree(itemAwards[1])

----------------------------------------------------------------------------
(* Further properties of match_movie_to_award (SpecMatch) *)

\* C27: the call's result is the result of the call with the two titles
\* exchanged, for every pair of titles and every threshold.
C27_Symmetric ==
    mpc = "done" =>
        matched = MatchMovieToAward(award_movie_title, movie_title, threshold)

\* a longer title given first and a shorter one that is part of it second:
\* a match through the substring test, which looks both ways
C27_Witness ==
    /\ mpc = "done"
    /\ Len(movie_title) > Len(award_movie_title)
    /\ NormalizeTitle(award_movie_title) # ""
    /\ tier = "substring"
    /\ matched = TRUE

----------------------------------------------------------------------------
(* Titles that normalize to the empty string (SpecEnrich) *)

\* a non-empty title of which normalization leaves nothing
EmptyKeyed(a) == HasTitle(a) /\ NormalizeTitle(a.movie_title) = ""

\* C28: a film of the catalog and an award title that normalizes to the
\* empty string match at every threshold, by a return no later than the
\* substring test, which holds of them; and with a non-empty catalog the
\* award gets the identifiers of the film under the empty key if the lookup
\* has that key, and of the first film of the lookup otherwise.
C28_EmptyTitleMatchesAll ==
    xpc \in {"loop", "done"} =>
        \A i \in 1..Len(enriched_awards) :
            EmptyKeyed(awards0[i]) =>
                LET a == awards0[i]
                    e == enriched_awards[i]
                    hits == {j \in 1..Len(movie_lookup) : movie_lookup[j].key = ""}
                IN  /\ \A m \in 1..Len(movies0) : \A t \in Thresholds :
                        LET d == MatchDecision(movies0[m].title, a.movie_title, t)
                        IN  /\ d.result
                            /\ d.tier \in {"exact", "substring"}
                            /\ d.tier = "exact" <=>
                                    NormalizeTitle(movies0[m].title) = ""
                    /\ movies0 # <<>> =>
                        /\ movie_lookup # <<>>
                        /\ hits # {} =>
                            \A j \in hits : LinkedTo(e, movie_lookup[j].movie)
                        /\ hits = {} => LinkedTo(e, movie_lookup[1].movie)

\* the award titled "The" with a catalog of two films, neither under the
\* empty key, the second of which no other test would match: the award has
\* the identifiers of the first
C28_Witness ==
    /\ xpc = "done"
    /\ Len(awards0) >= 1
    /\ EmptyKeyed(awards0[1])
    /\ Len(movie_lookup) = 2
    /\ \A j \in 1..2 : movie_lookup[j].key # ""
    /\ movie_lookup[1].movie.tmdb_id # movie_lookup[2].movie.tmdb_id
    /\ enriched_awards[1]["movie_tmdb_id"] = movie_lookup[1].movie.tmdb_id

----------------------------------------------------------------------------
(* Properties of the list strategy (Spec) *)

\* the number of <li>/<dd> elements of the page from block i on, those of
\* nested lists included, each counted once
RECURSIVE ItemCount(_, _)
ItemCount(page, i) ==
    IF i > Len(page) THEN 0
    ELSE (IF page[i].kind = "list" THEN Len(ItemsOf(page[i].body)) ELSE 0)
         + ItemCount(page, i + 1)

\* C29: the list strategy returns at most one Award for every list item of
\* the page, so no more Awards than the page has list items.
C29_OneAwardPerItem ==
    (Len(calls) = 3 /\ calls[3].strategy = "list")
        => Len(calls[3].returned) <= ItemCount(soup, 1)

----------------------------------------------------------------------------
(* Properties of the recorded Year (SpecScan) *)

\* whether s holds four digits in a row
HasFourDigits(s) ==
    \E i \in 1..Len(s) :
        /\ i + 3 <= Len(s)
        /\ \A j \in 0..3 : Ch(s, i + j) \in DigitChars

\* C30: a Year that is recorded and is not None holds four digits in a row,
\* those of the header cell that set it; no row of a skipped table is
\* scanned, so such a table adds no record and leaves the year; and a row
\* without a year token keeps the year of the row scanned before it, in the
\* same table or in the one before.
C30_YearIsToken ==
    /\ \A i \in 1..Len(data) :
        data[i].Year # None => HasFourDigits(data[i].Year)
    /\ \A k \in 1..Len(scanned) :
        /\ scanned[k].table \notin skip_tables
        /\ ~TokenRow(k) => YearAfter(k) = YearAfter(k - 1)

=============================================================================
